---- MODULE Spec2Model ----
(***************************************************************************)
(* A model of the hardware mocks of rpi4-driver: the virtual timing engine *)
(* (src/src/mocks/timing.py) and the GPIO, I2C and SPI mocks built on it.  *)
(*                                                                         *)
(* Times are fixed point: the integer n stands for n/1000 microseconds     *)
(* (one nanosecond), so that delay_ns(50) and delay_us(4.7) are integers.  *)
(* Python sequences are 0-based; the heap operators below keep Python's    *)
(* positions and read heap[pos + 1].                                       *)
(***************************************************************************)
EXTENDS Integers, Sequences, FiniteSets, TLC

VARIABLES
    virtual_time_us,  \* VirtualClock.virtual_time_us (fixed point, see above)
    events,           \* TimingEngine.events: the heapq list of ScheduledEvent
    next_event_id,    \* TimingEngine.next_event_id
    pc,               \* position of the caller: "idle" or inside "run_until"
    target_time_us,   \* run_until's argument while pc = "run_until"
    executed,         \* run_until's local counter `executed`
    fired,            \* the events whose callback the run_until in progress (or just
                      \* returned) invoked, in order; emptied by the next call
    cancelled,        \* the event ids for which cancel_event returned True
    last,             \* the last completed call: its name, argument, return value, exception
    pin_states,       \* GPIOMock.pin_states: dict pin -> PinState
    debounce_us,      \* GPIOMock.debounce_us: dict pin -> debounce time
    last_edge_time,   \* GPIOMock.last_edge_time: dict pin -> clock value
    interrupt_queue,  \* GPIOMock.interrupt_queue: the EdgeEvents not yet delivered
    operations,       \* GPIOMock.performance_metrics['operations']
    edge_callbacks,   \* GPIOMock.edge_callbacks: dict pin -> number of callbacks in its list
    edges_detected,   \* the events a registered callback was invoked for, in order
    mock_state,       \* GPIOMock.state (BaseMock.state)
    workers,          \* the number of live threads running GPIOMock._interrupt_processor
    gpio_injection,   \* GPIOMock.error_injection_enabled
    interrupt_thread, \* whether GPIOMock.interrupt_thread is set (not None)
    stuck,            \* the pins a stuck_pin fault took effect on, with the injected value
    bus_state,        \* I2CMock.bus_state
    bus_speed,        \* I2CMock.bus_speed, in Hz
    devices,          \* I2CMock.devices: the addresses that hold a device
    transaction_history,  \* I2CMock.transaction_history
    i2c_metrics,      \* I2CMock.performance_metrics: operations and errors
    bus_trace,        \* the values bus_state took during the last write_read, in order
    i2c_lock,         \* I2CMock._lock: the thread that holds it, or free
    i2c_call,         \* per thread, the write_read or scan it is inside and where
    device_pointer,   \* per address, the register pointer of the device added there
    scans,            \* the number of scan calls begun
    spi_config,       \* SPIMock.config
    spi_devices,      \* SPIMock.devices: dict chip select -> device (its class, selected)
    current_cs,       \* SPIMock.current_cs
    cs_lines,         \* SPIMock.cs_lines: dict chip select -> level
    spi_lines,        \* SPIMock.mosi_line and sclk_line
    spi_history,      \* SPIMock.transaction_history
    spi_metrics,      \* SPIMock.performance_metrics: operations and errors
    spi_injection,    \* SPIMock.error_injection_enabled
    spi_call,         \* the transfer in progress (it holds SPIMock._lock), or idle
    uart_config,      \* UARTMock.config of each UART: flow_control, timeout, baudrate
    tx_buffer,        \* UARTMock.tx_buffer of each UART
    rx_buffer,        \* UARTMock.rx_buffer of each UART
    uart_lines,       \* UARTMock.rts, cts and xoff_received of each UART
    peer,             \* UARTMock.peer of each UART
    loopback,         \* UARTMock.loopback of each UART
    uart_stats,       \* bytes_transmitted, bytes_received, parity_errors, framing_errors
    uart_metrics,     \* performance_metrics['operations'] of each UART
    uart_call,        \* the write or read in progress on each UART, or idle
    rx_control,       \* the last control byte put into each UART's rx_buffer
    uart_injection,   \* UARTMock.error_injection_enabled of each UART
    contract,         \* InterfaceContract.contract: the loaded contract document
    impl_state,       \* the implementation's MockState: initialized and pins
    violations,       \* ContractVerifier.violations
    generated,        \* what generate_mock gave: nothing yet, an instance or an exception
    impl_raised,      \* the exception execute_operation raised in the last call, or none
    checks,           \* the clause checks the last verifier call made, in order
    service           \* DeviceDetectorService: where run() is, running, retry_count

timingVars == <<virtual_time_us, events, next_event_id, pc, target_time_us,
                executed, fired, cancelled, last>>

gpioLife == <<mock_state, workers, gpio_injection, interrupt_thread, stuck>>

gpioVars == <<pin_states, debounce_us, last_edge_time, interrupt_queue, operations,
              edge_callbacks, edges_detected, gpioLife>>

i2cBus == <<i2c_lock, i2c_call, device_pointer, scans>>

i2cVars == <<bus_state, bus_speed, devices, transaction_history, i2c_metrics, bus_trace,
             i2cBus>>

spiVars == <<spi_config, spi_devices, current_cs, cs_lines, spi_lines, spi_history,
             spi_metrics, spi_injection, spi_call>>

uartVars == <<uart_config, tx_buffer, rx_buffer, uart_lines, peer, loopback, uart_stats,
              uart_metrics, uart_call, rx_control, uart_injection>>

verifierVars == <<contract, impl_state, violations, generated, impl_raised, checks>>

detectorVars == <<service>>

vars == <<timingVars, gpioVars, i2cVars, spiVars, uartVars, verifierVars, detectorVars>>

------------------------------------------------------------------------------
(* Bounds of the model *)

\* schedule_event is called at most MaxEvents times (ids 0 .. MaxEvents-1)
MaxEvents == 3
\* no call moves the clock beyond MaxTime microseconds
MaxTime == 2

NsPerUs == 1000

Us(us) == us * NsPerUs

\* the delays (in microseconds) handed to schedule_event, negative included:
\* the code accepts any float
Delays == {-1, 1}
\* the delays a callback uses when it schedules a further event
ChildDelays == {-1, 1}
\* the same, for callers and callbacks that hand over no negative delay
NonNegDelays == {1, 2}
NonNegChildDelays == {0, 1}
\* the targets handed to run_until
Targets == 0 .. MaxTime
\* a GPIOMock records at most MaxOps operations (setup, output, input)
MaxOps == 3
\* simulate_edge schedules at most MaxEdges delayed edges
MaxEdges == 2
\* an I2CMock records at most MaxTransactions transactions
MaxTransactions == 2
\* scan is called at most MaxScans times
MaxScans == 1
\* an SPIMock records at most MaxTransfers operations
MaxTransfers == 2
\* the UARTs record at most MaxUartOps writes and reads between them
MaxUartOps == 2
\* a UART buffer holds at most MaxFrames frames
MaxFrames == 2

\* a callback, by what it does when invoked; a and b are its arguments (0: unused)
Callback(kind, a, b) == [kind |-> kind, a |-> a, b |-> b]

\* the callbacks a caller hands to schedule_event: one that returns, one that
\* raises, and one that itself calls schedule_event(a, <a callback that returns>)
UserCallbacks(child_delays) ==
    {Callback("plain", 0, 0), Callback("raise", 0, 0)}
        \cup {Callback("sched", d, 0) : d \in child_delays}

------------------------------------------------------------------------------
(* heapq over ScheduledEvent *)

\* @dataclass(order=True): only time_us takes part in the comparison
EventLess(x, y) == x.time_us < y.time_us

RECURSIVE siftdown(_, _, _, _)
siftdown(heap, startpos, pos, newitem) ==
    IF pos > startpos
    THEN LET parentpos == (pos - 1) \div 2
             parent == heap[parentpos + 1]
         IN  IF EventLess(newitem, parent)
             THEN siftdown([heap EXCEPT ![pos + 1] = parent], startpos, parentpos, newitem)
             ELSE [heap EXCEPT ![pos + 1] = newitem]
    ELSE [heap EXCEPT ![pos + 1] = newitem]

RECURSIVE siftup_loop(_, _)
siftup_loop(heap, pos) ==
    LET endpos == Len(heap)
        childpos == 2 * pos + 1
        rightpos == childpos + 1
        child == IF rightpos < endpos /\ ~EventLess(heap[childpos + 1], heap[rightpos + 1])
                 THEN rightpos ELSE childpos
    IN  IF childpos < endpos
        THEN siftup_loop([heap EXCEPT ![pos + 1] = heap[child + 1]], child)
        ELSE <<heap, pos>>

siftup(heap, pos) ==
    LET newitem == heap[pos + 1]
        r == siftup_loop(heap, pos)
    IN  siftdown(r[1], pos, r[2], newitem)

heappush(heap, item) == siftdown(Append(heap, item), 0, Len(heap), item)

\* <<the item returned, the heap left>>
heappop(heap) ==
    LET lastelt == heap[Len(heap)]
        rest == SubSeq(heap, 1, Len(heap) - 1)
    IN  IF rest # <<>>
        THEN <<rest[1], siftup([rest EXCEPT ![1] = lastelt], 0)>>
        ELSE <<lastelt, rest>>

RECURSIVE heapify_from(_, _)
heapify_from(x, i) == IF i < 0 THEN x ELSE heapify_from(siftup(x, i), i - 1)

heapify(x) == heapify_from(x, (Len(x) \div 2) - 1)

\* list.pop(i), i a 0-based position
ListPop(list, i) == SubSeq(list, 1, i) \o SubSeq(list, i + 2, Len(list))

------------------------------------------------------------------------------
(* TimingEngine *)

ScheduledEvent(time_us, callback, event_id) ==
    [time_us |-> time_us, callback |-> callback, event_id |-> event_id]

PendingIds == {events[i].event_id : i \in DOMAIN events}

\* ids still to be handed out to the children of pending "sched" callbacks
Reserved(evs) == Cardinality({i \in DOMAIN evs : evs[i].callback.kind = "sched"})

Result(op, arg, ret, raised) == [op |-> op, arg |-> arg, ret |-> ret, raised |-> raised]

\* the queue after schedule_event(delay_us, callback) at clock value now
Enqueue(evs, now, delay_us, callback, event_id) ==
    heappush(evs, ScheduledEvent(now + Us(delay_us), callback, event_id))

schedule_event(delay_us, callback) ==
    /\ pc = "idle"
    /\ next_event_id + Reserved(events) + (IF callback.kind = "sched" THEN 2 ELSE 1) <= MaxEvents
    /\ events' = Enqueue(events, virtual_time_us, delay_us, callback, next_event_id)
    /\ next_event_id' = next_event_id + 1
    /\ last' = Result("schedule_event", delay_us, next_event_id, "none")
    /\ fired' = <<>>
    /\ UNCHANGED <<virtual_time_us, pc, target_time_us, executed, cancelled>>

\* the 0-based position of the first event with this id, or -1
FindEvent(evs, event_id) ==
    IF \E i \in DOMAIN evs : evs[i].event_id = event_id
    THEN (CHOOSE i \in DOMAIN evs :
            /\ evs[i].event_id = event_id
            /\ \A j \in DOMAIN evs : evs[j].event_id = event_id => i <= j) - 1
    ELSE -1

\* mutant: cancel_event drops the head of the heap instead of the event it found
RemoveEventHead(evs, i) == heapify(ListPop(evs, 0))

\* the queue after cancel_event found the event at position i
RemoveEvent(evs, i) == heapify(ListPop(evs, i))

cancel_event(event_id) ==
    /\ pc = "idle"
    /\ LET i == FindEvent(events, event_id)
       IN  IF i >= 0
           THEN /\ events' = RemoveEvent(events, i)
                /\ cancelled' = cancelled \cup {event_id}
                /\ last' = Result("cancel_event", event_id, TRUE, "none")
           ELSE /\ UNCHANGED <<events, cancelled>>
                /\ last' = Result("cancel_event", event_id, FALSE, "none")
    /\ fired' = <<>>
    /\ UNCHANGED <<virtual_time_us, next_event_id, pc, target_time_us, executed>>

\* run_until up to its loop: executed = 0
run_until(target) ==
    /\ pc = "idle"
    /\ pc' = "run_until"
    /\ target_time_us' = target
    /\ executed' = 0
    /\ fired' = <<>>
    /\ UNCHANGED <<virtual_time_us, events, next_event_id, cancelled, last>>

run_for(duration_us) ==
    /\ virtual_time_us + Us(duration_us) <= Us(MaxTime)
    /\ run_until(virtual_time_us + Us(duration_us))

\* mutant: run_until works through the events that were pending when it was
\* called and stops at the first one a callback added
NoMoreEventsSnapshot(evs, target) ==
    evs = <<>> \/ evs[1].time_us > target \/ evs[1].callback.kind = "child"

\* the loop's exit test, under the lock
NoMoreEvents(evs, target) == evs = <<>> \/ evs[1].time_us > target

\* a Python dict: a function on its keys
EmptyDict == [k \in {} |-> 0]

DictSet(d, key, value) == [k \in DOMAIN d \cup {key} |-> IF k = key THEN value ELSE d[k]]

DictGet(d, key, default) == IF key \in DOMAIN d THEN d[key] ELSE default

------------------------------------------------------------------------------
(* GPIOMock: the closure apply_edge of simulate_edge *)

\* the pins of the model, two of VALID_PINS
Pins == {17, 22}
\* the pin that takes simulated edges
EdgePins == {17}

PinState(mode, value, pull, edge_detection) ==
    [mode |-> mode, value |-> value, pull |-> pull, edge_detection |-> edge_detection]

EdgeEvent(pin, edge_type, timestamp, value) ==
    [pin |-> pin, edge_type |-> edge_type, timestamp |-> timestamp, value |-> value]

GpioState(ps, let, q, raised) ==
    [pin_states |-> ps, last_edge_time |-> let, interrupt_queue |-> q, raised |-> raised]

\* mutant: no edge is ignored
DebouncedNever(let, deb, pin, current_time) == FALSE

\* the debounce test: the edge is ignored
Debounced(let, deb, pin, current_time) ==
    pin \in DOMAIN let /\ current_time - let[pin] < DictGet(deb, pin, 0)

\* mutant: any transition of a watched pin is detected
DetectsAny(detection, edge_type) == detection # "None"

\* whether the pin's edge detection asks for this transition
Detects(detection, edge_type) ==
    detection # "None" /\ (detection = "both" \/ detection = edge_type)

\* apply_edge() for simulate_edge(pin, new_value, ...), run at clock value current_time
apply_edge(ps, deb, let, q, current_time, pin, new_value) ==
    IF Debounced(let, deb, pin, current_time)
    THEN GpioState(ps, let, q, "none")
    ELSE IF pin \notin DOMAIN ps
    THEN GpioState(ps, let, q, "KeyError")
    ELSE LET old_value == ps[pin].value
             ps2 == [ps EXCEPT ![pin].value = new_value]
             edge_type == IF old_value = 0 /\ new_value = 1 THEN "rising" ELSE "falling"
             detection == ps[pin].edge_detection
             detected == Detects(detection, edge_type)
         IN  IF old_value = new_value
             THEN GpioState(ps2, let, q, "none")
             ELSE GpioState(ps2, DictSet(let, pin, current_time),
                            IF detected
                            THEN Append(q, EdgeEvent(pin, edge_type, current_time, new_value))
                            ELSE q,
                            "none")

------------------------------------------------------------------------------
(* TimingEngine.run_until *)

\* what the callback of a popped event does to the queue; the clock is the event's
\* time. A "sched" callback calls schedule_event(a, child), and the child records
\* the id of the event that scheduled it.
CallbackEvents(event, evs, id) ==
    IF event.callback.kind = "sched"
    THEN Enqueue(evs, event.time_us, event.callback.a,
                 Callback("child", 0, event.event_id), id)
    ELSE evs

\* mutant: run_until has no try/except around the callback
PropagatesUncaught(callback) == TRUE

\* whether an exception raised by a callback leaves run_until: `except Exception`
\* catches it
Propagates(callback) == FALSE

\* what the callback of a popped event does to the GPIO mock that scheduled it
CallbackGpio(event) ==
    IF event.callback.kind = "edge"
    THEN apply_edge(pin_states, debounce_us, last_edge_time, interrupt_queue,
                    event.time_us, event.callback.a, event.callback.b)
    ELSE GpioState(pin_states, last_edge_time, interrupt_queue, "none")

\* one pass of run_until's while loop; the locals are gone when it returns
run_until_step ==
    /\ pc = "run_until"
    /\ IF NoMoreEvents(events, target_time_us)
       THEN /\ virtual_time_us' = target_time_us
            /\ pc' = "idle"
            /\ last' = Result("run_until", target_time_us, executed, "none")
            /\ target_time_us' = 0
            /\ executed' = 0
            /\ UNCHANGED <<events, next_event_id, fired, pin_states, last_edge_time,
                           interrupt_queue>>
       ELSE LET popped == heappop(events)
                event == popped[1]
                gpio == CallbackGpio(event)
                raises == event.callback.kind = "raise" \/ gpio.raised # "none"
            IN  /\ virtual_time_us' = event.time_us
                /\ events' = CallbackEvents(event, popped[2], next_event_id)
                /\ next_event_id' = IF event.callback.kind = "sched"
                                    THEN next_event_id + 1 ELSE next_event_id
                /\ pin_states' = gpio.pin_states
                /\ last_edge_time' = gpio.last_edge_time
                /\ interrupt_queue' = gpio.interrupt_queue
                /\ fired' = Append(fired, event)
                /\ IF raises /\ Propagates(event.callback)
                   THEN /\ pc' = "idle"
                        /\ last' = Result("run_until", target_time_us, executed, "Exception")
                        /\ target_time_us' = 0
                        /\ executed' = 0
                   ELSE /\ executed' = IF raises THEN executed ELSE executed + 1
                        /\ UNCHANGED <<pc, last, target_time_us>>
    /\ UNCHANGED <<cancelled, debounce_us, operations, edge_callbacks, edges_detected, gpioLife>>

\* the clock after VirtualClock.advance_us(microseconds), in fixed point
AdvanceUs(now, ns) == now + ns

delay_us(microseconds) ==
    /\ pc = "idle"
    /\ AdvanceUs(virtual_time_us, Us(microseconds)) <= Us(MaxTime)
    /\ virtual_time_us' = AdvanceUs(virtual_time_us, Us(microseconds))
    /\ last' = Result("delay_us", microseconds, 0, "none")
    /\ fired' = <<>>
    /\ UNCHANGED <<events, next_event_id, pc, target_time_us, executed, cancelled>>

------------------------------------------------------------------------------
(* GPIOMock *)

\* the pin states after setup(pin, mode, pull_up_down)
SetupPin(ps, pin, mode, pull) ==
    LET old == DictGet(ps, pin, PinState("input", 0, "off", "None"))
        value == IF mode = "input" /\ pull = "up" THEN 1
                 ELSE IF mode = "input" /\ pull = "down" THEN 0
                 ELSE old.value
    IN  DictSet(ps, pin, PinState(mode, value, pull, old.edge_detection))

\* mutant: output writes a pin whatever its mode
RejectsWriteNever(ps, pin) == pin \notin DOMAIN ps

\* output's validation of the pin: it raises
RejectsWrite(ps, pin) == pin \notin DOMAIN ps \/ ps[pin].mode # "output"

\* mutant: output drives every configured pin
OutputPinAll(ps, pin, value) == [p \in DOMAIN ps |-> [ps[p] EXCEPT !.value = value]]

\* mutant: output does not store the value
OutputPinLost(ps, pin, value) == ps

\* the pin states after a valid output(pin, value)
OutputPin(ps, pin, value) == [ps EXCEPT ![pin].value = value]

\* what input(pin) returns
InputPin(ps, pin) == ps[pin].value

\* setup(pin, mode, pull_up_down) with a valid pin, mode and pull ("off": None)
setup(pin, mode, pull) ==
    /\ pc = "idle"
    /\ operations < MaxOps
    /\ virtual_time_us' = AdvanceUs(virtual_time_us, 50)
    /\ pin_states' = SetupPin(pin_states, pin, mode, pull)
    /\ operations' = operations + 1
    /\ last' = Result("setup", pin, 0, "none")
    /\ fired' = <<>>
    /\ UNCHANGED <<events, next_event_id, pc, target_time_us, executed, cancelled,
                   debounce_us, last_edge_time, interrupt_queue, edge_callbacks,
                   edges_detected, gpioLife>>

\* output(pin, value) with value 0 or 1
output(pin, value) ==
    /\ pc = "idle"
    /\ operations < MaxOps
    /\ IF RejectsWrite(pin_states, pin)
       THEN /\ last' = Result("output", pin, 0, "MockException")
            /\ UNCHANGED <<virtual_time_us, pin_states>>
       ELSE /\ virtual_time_us' = AdvanceUs(virtual_time_us, 10)
            /\ pin_states' = OutputPin(pin_states, pin, value)
            /\ last' = Result("output", pin, 0, "none")
    /\ operations' = operations + 1
    /\ fired' = <<>>
    /\ UNCHANGED <<events, next_event_id, pc, target_time_us, executed, cancelled,
                   debounce_us, last_edge_time, interrupt_queue, edge_callbacks,
                   edges_detected, gpioLife>>

\* simulate_edge(pin, new_value, delay_us)
simulate_edge(pin, new_value, delay) ==
    /\ pc = "idle"
    /\ IF pin \notin DOMAIN pin_states
       THEN /\ last' = Result("simulate_edge", pin, 0, "MockException")
            /\ UNCHANGED <<events, next_event_id, pin_states, last_edge_time, interrupt_queue>>
       ELSE IF pin_states[pin].mode = "output"
       THEN /\ last' = Result("simulate_edge", pin, 0, "none")
            /\ UNCHANGED <<events, next_event_id, pin_states, last_edge_time, interrupt_queue>>
       ELSE IF delay > 0
       THEN /\ next_event_id < MaxEdges
            /\ events' = Enqueue(events, virtual_time_us, delay,
                                 Callback("edge", pin, new_value), next_event_id)
            /\ next_event_id' = next_event_id + 1
            /\ last' = Result("simulate_edge", pin, 0, "none")
            /\ UNCHANGED <<pin_states, last_edge_time, interrupt_queue>>
       ELSE LET gpio == apply_edge(pin_states, debounce_us, last_edge_time,
                                   interrupt_queue, virtual_time_us, pin, new_value)
            IN  /\ Len(interrupt_queue) + Len(edges_detected) < MaxEdges
                /\ pin_states' = gpio.pin_states
                /\ last_edge_time' = gpio.last_edge_time
                /\ interrupt_queue' = gpio.interrupt_queue
                /\ last' = Result("simulate_edge", pin, 0, gpio.raised)
                /\ UNCHANGED <<events, next_event_id>>
    /\ fired' = <<>>
    /\ UNCHANGED <<virtual_time_us, pc, target_time_us, executed, cancelled,
                   debounce_us, operations, edge_callbacks, edges_detected, gpioLife>>

\* the edge types and the bouncetime values (milliseconds, 0 for None) the callers pass
EdgeTypes == {"rising", "falling", "both"}
Bouncetimes == {0, 1}
\* the longest list of callbacks of a pin
MaxCallbacks == 1

\* add_event_detect(pin, edge, callback, bouncetime) with a valid edge type
add_event_detect(pin, edge, has_callback, bouncetime) ==
    /\ pc = "idle"
    /\ has_callback => DictGet(edge_callbacks, pin, 0) < MaxCallbacks
    /\ IF pin \notin DOMAIN pin_states \/ pin_states[pin].mode # "input"
       THEN /\ last' = Result("add_event_detect", pin, 0, "MockException")
            /\ UNCHANGED <<pin_states, debounce_us, edge_callbacks>>
       ELSE /\ pin_states' = [pin_states EXCEPT ![pin].edge_detection = edge]
            /\ debounce_us' = DictSet(debounce_us, pin, Us(bouncetime * 1000))
            /\ edge_callbacks' = IF has_callback
                                 THEN DictSet(edge_callbacks, pin,
                                              DictGet(edge_callbacks, pin, 0) + 1)
                                 ELSE edge_callbacks
            /\ last' = Result("add_event_detect", pin, 0, "none")
    /\ fired' = <<>>
    /\ UNCHANGED <<virtual_time_us, events, next_event_id, pc, target_time_us, executed,
                   cancelled, last_edge_time, interrupt_queue, operations, edges_detected, gpioLife>>

\* the None that shutdown puts on the queue
Sentinel == EdgeEvent(-1, "None", 0, 0)

\* n invocations of a callback for the event
RECURSIVE Invocations(_, _)
Invocations(event, n) == IF n = 0 THEN <<>> ELSE <<event>> \o Invocations(event, n - 1)

\* one pass of _interrupt_processor's loop that finds an event in the queue; the
\* thread runs whatever the caller is doing
interrupt_processor ==
    /\ workers > 0
    /\ interrupt_queue # <<>>
    /\ Head(interrupt_queue) # Sentinel
    /\ LET event == Head(interrupt_queue)
       IN  edges_detected' = edges_detected \o
                                Invocations(event, DictGet(edge_callbacks, event.pin, 0))
    /\ interrupt_queue' = Tail(interrupt_queue)
    /\ UNCHANGED <<timingVars, pin_states, debounce_us, last_edge_time, operations,
                   edge_callbacks, gpioLife>>

\* a pass of _interrupt_processor's loop that ends the thread: the loop condition
\* finds the mock shut down, or get() returns the sentinel
interrupt_exit ==
    /\ workers > 0
    /\ \/ /\ mock_state = "shutdown"
          /\ UNCHANGED interrupt_queue
       \/ /\ interrupt_queue # <<>>
          /\ Head(interrupt_queue) = Sentinel
          /\ interrupt_queue' = Tail(interrupt_queue)
    /\ workers' = workers - 1
    /\ UNCHANGED <<timingVars, pin_states, debounce_us, last_edge_time, operations,
                   edge_callbacks, edges_detected, mock_state, gpio_injection,
                   interrupt_thread, stuck>>

\* the most threads the model starts
MaxWorkers == 2

\* initialize(): starts a thread on _interrupt_processor
initialize_gpio ==
    /\ pc = "idle"
    /\ workers < MaxWorkers
    /\ mock_state' = "active"
    /\ workers' = workers + 1
    /\ interrupt_thread' = TRUE
    /\ last' = Result("initialize", 0, 0, "none")
    /\ fired' = <<>>
    /\ UNCHANGED <<virtual_time_us, events, next_event_id, pc, target_time_us, executed,
                   cancelled, pin_states, debounce_us, last_edge_time, interrupt_queue,
                   operations, edge_callbacks, edges_detected, gpio_injection, stuck>>

\* shutdown(): the sentinel is put if interrupt_thread is set, which it is once
\* initialize() has been called; join waits at most a second for that thread and
\* does not tell whether it ended
shutdown_gpio ==
    /\ pc = "idle"
    /\ Len(interrupt_queue) < MaxEdges
    /\ mock_state' = "shutdown"
    /\ interrupt_queue' = IF interrupt_thread
                          THEN Append(interrupt_queue, Sentinel)
                          ELSE interrupt_queue
    /\ pin_states' = EmptyDict
    /\ edge_callbacks' = EmptyDict
    /\ stuck' = EmptyDict
    /\ last' = Result("shutdown", 0, 0, "none")
    /\ fired' = <<>>
    /\ UNCHANGED <<virtual_time_us, events, next_event_id, pc, target_time_us, executed,
                   cancelled, debounce_us, last_edge_time, operations, edges_detected,
                   workers, gpio_injection, interrupt_thread>>

\* input(pin)
input(pin) ==
    /\ pc = "idle"
    /\ operations < MaxOps
    /\ IF pin \notin DOMAIN pin_states
       THEN /\ last' = Result("input", pin, 0, "MockException")
            /\ UNCHANGED virtual_time_us
       ELSE /\ virtual_time_us' = AdvanceUs(virtual_time_us, 5)
            /\ last' = Result("input", pin, InputPin(pin_states, pin), "none")
    /\ operations' = operations + 1
    /\ fired' = <<>>
    /\ UNCHANGED <<events, next_event_id, pc, target_time_us, executed, cancelled,
                   pin_states, debounce_us, last_edge_time, interrupt_queue,
                   edge_callbacks, edges_detected, gpioLife>>

\* enable_error_injection() of the GPIO mock
gpio_enable_error_injection ==
    /\ pc = "idle"
    /\ gpio_injection' = TRUE
    /\ UNCHANGED <<timingVars, pin_states, debounce_us, last_edge_time, interrupt_queue,
                   operations, edge_callbacks, edges_detected, mock_state, workers,
                   interrupt_thread, stuck>>

\* inject_error('stuck_pin', pin=pin, value=value)
inject_stuck_pin(pin, value) ==
    /\ pc = "idle"
    /\ IF ~gpio_injection
       THEN /\ last' = Result("inject_error", pin, 0, "MockException")
            /\ UNCHANGED <<pin_states, stuck>>
       ELSE IF pin \notin DOMAIN pin_states
       THEN /\ last' = Result("inject_error", pin, 0, "none")
            /\ UNCHANGED <<pin_states, stuck>>
       ELSE /\ pin_states' = [pin_states EXCEPT ![pin].value = value, ![pin].mode = "input"]
            /\ stuck' = DictSet(stuck, pin, value)
            /\ last' = Result("inject_error", pin, 0, "none")
    /\ fired' = <<>>
    /\ UNCHANGED <<virtual_time_us, events, next_event_id, pc, target_time_us, executed,
                   cancelled, debounce_us, last_edge_time, interrupt_queue, operations,
                   edge_callbacks, edges_detected, mock_state, workers, gpio_injection,
                   interrupt_thread>>

------------------------------------------------------------------------------
(* I2CMock *)

\* the addresses of the model: the ends of the 7-bit range and one inside
Addresses == {8, 72, 119}

\* the data handed to write_read: nothing, or one byte
WriteData == {<<>>, <<0>>}

ReadLengths == {0, 2}

I2CSpeed == {100000, 400000}

I2CTransactionOk(address, write_data, read_data, success, timestamp, duration_us) ==
    [address |-> address, write_data |-> write_data, read_data |-> read_data,
     success |-> TRUE, timestamp |-> timestamp, duration_us |-> duration_us]

I2CTransaction(address, write_data, read_data, success, timestamp, duration_us) ==
    [address |-> address, write_data |-> write_data, read_data |-> read_data,
     success |-> success, timestamp |-> timestamp, duration_us |-> duration_us]

\* 1_000_000 / bus_speed microseconds, in fixed point
BitTime(speed) == (1000000 * NsPerUs) \div speed

\* the time _send_byte takes: eight bits and the ninth clock
ByteTime(speed) == 9 * BitTime(speed)

\* I2CDeviceMock.read(length)
DeviceRead(length) == [i \in 1 .. length |-> 0]

\* write_read(address, write_data, read_length) as it runs to its end: the bus,
\* clock and result of a transaction that began at clock value now.
\* _send_byte always sees ACK for a data byte, and the second _send_address sees
\* the device the first one saw.
WriteRead(devs, speed, now, address, write_data, read_length) ==
    LET t_start == now + 4700
        t_addr == t_start + ByteTime(speed)
        ack == address \in devs
        t_written == t_addr + Len(write_data) * ByteTime(speed)
        t_read == IF read_length > 0
                  THEN t_written + 4700 + ByteTime(speed) + read_length * ByteTime(speed)
                  ELSE t_written
        t_stop == t_read + 4000
    IN  IF ~ack
        THEN [raised |-> "MockException", ret |-> <<>>, time |-> t_addr,
              bus_state |-> "start", trace |-> <<"start">>]
        ELSE [raised |-> "none",
              ret |-> IF read_length > 0 THEN DeviceRead(read_length) ELSE <<>>,
              time |-> t_stop,
              bus_state |-> "idle",
              trace |-> IF read_length > 0 THEN <<"start", "start", "idle">>
                        ELSE <<"start", "idle">>]

initialize_i2c(speed) ==
    /\ bus_speed' = speed
    /\ UNCHANGED <<bus_state, devices, transaction_history, i2c_metrics, bus_trace, i2cBus>>
    /\ UNCHANGED <<timingVars, gpioVars, spiVars, uartVars, verifierVars, detectorVars>>

add_device(address) ==
    /\ IF address \in devices
       THEN /\ last' = Result("add_device", address, 0, "MockException")
            /\ UNCHANGED devices
       ELSE /\ last' = Result("add_device", address, 0, "none")
            /\ devices' = devices \cup {address}
    /\ UNCHANGED <<bus_state, bus_speed, transaction_history, i2c_metrics, bus_trace,
                   i2cBus>>
    /\ UNCHANGED <<virtual_time_us, events, next_event_id, pc, target_time_us, executed,
                   fired, cancelled>>
    /\ UNCHANGED <<gpioVars, spiVars, uartVars, verifierVars, detectorVars>>

remove_device(address) ==
    /\ devices' = devices \ {address}
    /\ last' = Result("remove_device", address, 0, "none")
    /\ UNCHANGED <<bus_state, bus_speed, transaction_history, i2c_metrics, bus_trace,
                   i2cBus>>
    /\ UNCHANGED <<virtual_time_us, events, next_event_id, pc, target_time_us, executed,
                   fired, cancelled>>
    /\ UNCHANGED <<gpioVars, spiVars, uartVars, verifierVars, detectorVars>>

write_read(address, write_data, read_length) ==
    /\ i2c_metrics.operations < MaxTransactions
    /\ LET r == WriteRead(devices, bus_speed, virtual_time_us, address, write_data, read_length)
       IN  /\ virtual_time_us' = r.time
           /\ bus_state' = r.bus_state
           /\ bus_trace' = r.trace
           /\ transaction_history' =
                  Append(transaction_history,
                         I2CTransaction(address, write_data, r.ret, r.raised = "none",
                                        virtual_time_us, r.time - virtual_time_us))
           /\ i2c_metrics' = [operations |-> i2c_metrics.operations + 1,
                              errors |-> i2c_metrics.errors
                                            + (IF r.raised = "none" THEN 0 ELSE 1)]
           /\ last' = Result("write_read", address, r.ret, r.raised)
    /\ UNCHANGED <<bus_speed, devices, i2cBus>>
    /\ UNCHANGED <<events, next_event_id, pc, target_time_us, executed, fired, cancelled>>
    /\ UNCHANGED <<gpioVars, spiVars, uartVars, verifierVars, detectorVars>>

\* clear_transaction_history()
clear_transaction_history ==
    /\ transaction_history' = <<>>
    /\ last' = Result("clear_transaction_history", 0, 0, "none")
    /\ UNCHANGED <<bus_state, bus_speed, devices, i2c_metrics, bus_trace, i2cBus>>
    /\ UNCHANGED <<virtual_time_us, events, next_event_id, pc, target_time_us, executed,
                   fired, cancelled>>
    /\ UNCHANGED <<gpioVars, spiVars, uartVars, verifierVars, detectorVars>>

\* shutdown()
shutdown_i2c ==
    /\ devices' = {}
    /\ transaction_history' = <<>>
    /\ last' = Result("shutdown", 0, 0, "none")
    /\ UNCHANGED <<bus_state, bus_speed, i2c_metrics, bus_trace, i2cBus>>
    /\ UNCHANGED <<virtual_time_us, events, next_event_id, pc, target_time_us, executed,
                   fired, cancelled>>
    /\ UNCHANGED <<gpioVars, spiVars, uartVars, verifierVars, detectorVars>>

ProbeAddressAlways(devs, address) == TRUE

\* what _probe_address(address) returns
ProbeAddress(devs, address) == address \in devs

\* the time _probe_address takes: START, the address byte and STOP
ProbeTime(speed) == 4700 + ByteTime(speed) + 4000

\* the loop of scan over first .. stop: found_devices, the addresses that
\* acknowledged, in the order probed (the range is halved to keep the
\* evaluation shallow)
RECURSIVE ScanOver(_, _, _)
ScanOver(devs, first, stop) ==
    IF first > stop THEN <<>>
    ELSE IF first = stop
    THEN IF ProbeAddress(devs, first) THEN <<first>> ELSE <<>>
    ELSE LET mid == (first + stop) \div 2
         IN  ScanOver(devs, first, mid) \o ScanOver(devs, mid + 1, stop)

\* scan(): every address of range(0x08, 0x78) is probed, none under the lock
scan ==
    /\ scans < MaxScans
    /\ scans' = scans + 1
    /\ virtual_time_us' = virtual_time_us + (120 - 8) * ProbeTime(bus_speed)
    /\ bus_state' = "idle"
    /\ last' = Result("scan", 0, ScanOver(devices, 8, 120 - 1), "none")
    /\ UNCHANGED <<bus_speed, devices, transaction_history, i2c_metrics, bus_trace,
                   i2c_lock, i2c_call, device_pointer>>
    /\ UNCHANGED <<events, next_event_id, pc, target_time_us, executed, fired, cancelled>>
    /\ UNCHANGED <<gpioVars, spiVars, uartVars, verifierVars, detectorVars>>

------------------------------------------------------------------------------
(* I2CMock called from two threads: write_read and scan, helper by helper *)

Threads == {"a", "b"}

\* I2CMock._lock is not held
Free == "free"

\* range(0x08, 0x78), at the addresses of the model
ScanRange == <<8, 72>>

\* the addresses a device with a register pointer is added at
RegisterAddresses == {72}

\* the addresses write_read is called with: one that holds the device, one that
\* holds none
BusAddresses == {72, 119}

\* the data handed to write_read by a thread: a register index
RegisterData == {<<0>>, <<1>>}

\* TestDevice.registers
Registers == (0 :> 18) @@ (1 :> 52)

\* TestDevice.write(data)
TestDeviceWrite(pointer, data) == IF data # <<>> THEN data[1] ELSE pointer

\* TestDevice.read(length)
TestDeviceRead(pointer, length) ==
    [i \in 1 .. length |->
        LET addr == (pointer + i - 1) % 256
        IN  IF addr \in DOMAIN Registers THEN Registers[addr] ELSE 255]

\* a thread that is in no call on the bus
IdleBusCall ==
    [op |-> "idle", state |-> "idle", address |-> 0, write_data |-> <<>>,
     read_length |-> 0, sent |-> 0, read_data |-> <<>>, start_time |-> 0,
     probe |-> 0, ack |-> FALSE, found |-> <<>>]

\* what write_read does after the address was acknowledged and sent bytes of
\* write_data are out
AfterSent(call, sent) ==
    IF sent < Len(call.write_data) THEN "data"
    ELSE IF call.read_length > 0 THEN "restart" ELSE "stop"

\* the except clause of write_read and the end of its with block: the failed
\* transaction is recorded, the lock released and the exception raised
write_read_raise(t, now) ==
    /\ transaction_history' =
           Append(transaction_history,
                  I2CTransaction(i2c_call[t].address, i2c_call[t].write_data, <<>>, FALSE,
                                 i2c_call[t].start_time, now - i2c_call[t].start_time))
    /\ i2c_metrics' = [operations |-> i2c_metrics.operations + 1,
                       errors |-> i2c_metrics.errors + 1]
    /\ i2c_lock' = Free
    /\ i2c_call' = [i2c_call EXCEPT ![t] = IdleBusCall]
    /\ last' = Result("write_read", i2c_call[t].address, <<>>, "MockException")

busFrame ==
    /\ UNCHANGED <<events, next_event_id, pc, target_time_us, executed, fired, cancelled>>
    /\ UNCHANGED <<gpioVars, spiVars, uartVars, verifierVars, detectorVars>>
    /\ UNCHANGED <<bus_speed, bus_trace>>

\* add_device(TestDevice()): a device whose pointer is 0
add_register_device(address) ==
    /\ address \notin devices
    /\ devices' = devices \cup {address}
    /\ device_pointer' = DictSet(device_pointer, address, 0)
    /\ last' = Result("add_device", address, 0, "none")
    /\ UNCHANGED <<virtual_time_us, bus_state, transaction_history, i2c_metrics, i2c_lock,
                   i2c_call, scans>>
    /\ busFrame

\* device.write(data), called on the device itself while no thread is on the bus
device_write(address, data) ==
    /\ address \in DOMAIN device_pointer
    /\ \A t \in Threads : i2c_call[t].state = "idle"
    /\ device_pointer' = [device_pointer EXCEPT
                              ![address] = TestDeviceWrite(device_pointer[address], data)]
    /\ last' = Result("device_write", address, 0, "none")
    /\ UNCHANGED <<virtual_time_us, bus_state, devices, transaction_history, i2c_metrics,
                   i2c_lock, i2c_call, scans>>
    /\ busFrame

\* thread t calls write_read: it reads the clock and goes for the lock
write_read_begin(t, address, write_data, read_length) ==
    /\ i2c_call[t].state = "idle"
    /\ Len(transaction_history)
           + Cardinality({u \in Threads : i2c_call[u].op = "write_read"}) < MaxTransactions
    /\ i2c_call' = [i2c_call EXCEPT ![t] =
                        [IdleBusCall EXCEPT !.op = "write_read", !.state = "lock",
                                            !.address = address, !.write_data = write_data,
                                            !.read_length = read_length,
                                            !.start_time = virtual_time_us]]
    /\ UNCHANGED <<virtual_time_us, last, bus_state, devices, transaction_history,
                   i2c_metrics, i2c_lock, device_pointer, scans>>
    /\ busFrame

\* with self._lock
acquire_lock(t) ==
    /\ i2c_call[t].state = "lock"
    /\ i2c_lock = Free
    /\ i2c_lock' = t
    /\ i2c_call' = [i2c_call EXCEPT ![t].state = "start"]
    /\ UNCHANGED <<virtual_time_us, last, bus_state, devices, transaction_history,
                   i2c_metrics, device_pointer, scans>>
    /\ busFrame

\* thread t calls scan: it goes for the first address, without the lock
scan_begin(t) ==
    /\ i2c_call[t].state = "idle"
    /\ scans < MaxScans
    /\ scans' = scans + 1
    /\ i2c_call' = [i2c_call EXCEPT ![t] =
                        [IdleBusCall EXCEPT !.op = "scan", !.state = "start", !.probe = 1,
                                            !.address = ScanRange[1]]]
    /\ UNCHANGED <<virtual_time_us, last, bus_state, devices, transaction_history,
                   i2c_metrics, i2c_lock, device_pointer>>
    /\ busFrame

\* _simulate_start_condition, in write_read and in _probe_address
simulate_start_condition(t) ==
    /\ i2c_call[t].state = "start"
    /\ virtual_time_us' = virtual_time_us + 4700
    /\ bus_state' = "start"
    /\ i2c_call' = [i2c_call EXCEPT ![t].state = "address"]
    /\ UNCHANGED <<last, devices, transaction_history, i2c_metrics, i2c_lock,
                   device_pointer, scans>>
    /\ busFrame

\* _send_address(address, read=False), in write_read and in _probe_address
send_address(t) ==
    /\ i2c_call[t].state = "address"
    /\ virtual_time_us' = virtual_time_us + ByteTime(bus_speed)
    /\ LET ack == i2c_call[t].address \in devices
       IN  IF i2c_call[t].op = "scan"
           THEN /\ i2c_call' = [i2c_call EXCEPT ![t].state = "stop", ![t].ack = ack]
                /\ UNCHANGED <<last, transaction_history, i2c_metrics, i2c_lock>>
           ELSE IF ack
           THEN /\ i2c_call' = [i2c_call EXCEPT ![t].state = AfterSent(i2c_call[t], 0)]
                /\ UNCHANGED <<last, transaction_history, i2c_metrics, i2c_lock>>
           ELSE write_read_raise(t, virtual_time_us')
    /\ UNCHANGED <<bus_state, devices, device_pointer, scans>>
    /\ busFrame

\* _send_byte(byte) for the next byte of write_data
send_byte(t) ==
    /\ i2c_call[t].state = "data"
    /\ virtual_time_us' = virtual_time_us + ByteTime(bus_speed)
    /\ i2c_call' = [i2c_call EXCEPT ![t].sent = @ + 1,
                                    ![t].state = AfterSent(i2c_call[t], i2c_call[t].sent + 1)]
    /\ UNCHANGED <<last, bus_state, devices, transaction_history, i2c_metrics, i2c_lock,
                   device_pointer, scans>>
    /\ busFrame

\* _simulate_repeated_start
simulate_repeated_start(t) ==
    /\ i2c_call[t].state = "restart"
    /\ virtual_time_us' = virtual_time_us + 4700
    /\ bus_state' = "start"
    /\ i2c_call' = [i2c_call EXCEPT ![t].state = "read_address"]
    /\ UNCHANGED <<last, devices, transaction_history, i2c_metrics, i2c_lock,
                   device_pointer, scans>>
    /\ busFrame

\* _send_address(address, read=True) and, when acknowledged, _receive_bytes
receive_bytes(t) ==
    /\ i2c_call[t].state = "read_address"
    /\ LET address == i2c_call[t].address
           length == i2c_call[t].read_length
           t_addr == virtual_time_us + ByteTime(bus_speed)
       IN  IF address \in devices
           THEN /\ virtual_time_us' = t_addr + length * ByteTime(bus_speed)
                /\ i2c_call' =
                       [i2c_call EXCEPT
                            ![t].state = "stop",
                            ![t].read_data =
                                IF address \in DOMAIN device_pointer
                                THEN TestDeviceRead(device_pointer[address], length)
                                ELSE DeviceRead(length)]
                /\ UNCHANGED <<last, transaction_history, i2c_metrics, i2c_lock>>
           ELSE /\ virtual_time_us' = t_addr
                /\ write_read_raise(t, t_addr)
    /\ UNCHANGED <<bus_state, devices, device_pointer, scans>>
    /\ busFrame

\* _simulate_stop_condition and what follows it: in write_read the transaction is
\* recorded, the lock released and read_data returned; in _probe_address scan
\* notes the address and goes for the next one, or returns
simulate_stop_condition(t) ==
    /\ i2c_call[t].state = "stop"
    /\ virtual_time_us' = virtual_time_us + 4000
    /\ bus_state' = "idle"
    /\ LET call == i2c_call[t]
           found == IF call.ack THEN Append(call.found, call.address) ELSE call.found
       IN  IF call.op = "scan"
           THEN /\ IF call.probe < Len(ScanRange)
                   THEN /\ i2c_call' = [i2c_call EXCEPT
                                            ![t].state = "start",
                                            ![t].probe = call.probe + 1,
                                            ![t].address = ScanRange[call.probe + 1],
                                            ![t].found = found]
                        /\ UNCHANGED last
                   ELSE /\ i2c_call' = [i2c_call EXCEPT ![t] = IdleBusCall]
                        /\ last' = Result("scan", 0, found, "none")
                /\ UNCHANGED <<transaction_history, i2c_metrics, i2c_lock>>
           ELSE /\ transaction_history' =
                       Append(transaction_history,
                              I2CTransaction(call.address, call.write_data, call.read_data,
                                             TRUE, call.start_time,
                                             virtual_time_us' - call.start_time))
                /\ i2c_metrics' = [i2c_metrics EXCEPT !.operations = @ + 1]
                /\ i2c_lock' = Free
                /\ i2c_call' = [i2c_call EXCEPT ![t] = IdleBusCall]
                /\ last' = Result("write_read", call.address, call.read_data, "none")
    /\ UNCHANGED <<devices, device_pointer, scans>>
    /\ busFrame

------------------------------------------------------------------------------
(* SPIMock *)

\* current_cs = None
NoCS == -1

ChipSelects == {0, 1}

\* the device classes: SPIDeviceMock itself, a subclass whose transfer_byte
\* echoes, a subclass whose transfer_byte raises, and a subclass with state,
\* whose transfer_byte answers 0xFF and 0x00 in turn
DeviceKinds == {"default", "echo", "faulty", "toggle"}

\* the classes of the devices handed to add_device
AddedKinds == {"default", "faulty"}

TxData == {<<>>, <<165>>}

SPIConfig(mode, lsb_first, cs_active_high) ==
    [speed_hz |-> 1000000, mode |-> mode, bits_per_word |-> 8,
     lsb_first |-> lsb_first, cs_active_high |-> cs_active_high]

\* the configurations handed to configure
Configs == {SPIConfig(<<0, 0>>, FALSE, high) : high \in BOOLEAN}

\* the level _assert_cs drives a chip-select line to
AssertLevel(config) == IF config.cs_active_high THEN 0 ELSE 1

\* the level add_device and _deassert_cs leave a chip-select line at
IdleLevel(config) == IF config.cs_active_high THEN 1 ELSE 0

\* a device: calls is the number of times its transfer_byte was called
SPIDevice(kind, selected) == [kind |-> kind, selected |-> selected, calls |-> 0]

Select(devs, chip_select, selected) ==
    IF chip_select \in DOMAIN devs
    THEN [devs EXCEPT ![chip_select].selected = selected]
    ELSE devs

RECURSIVE Pow2(_)
Pow2(n) == IF n = 0 THEN 1 ELSE 2 * Pow2(n - 1)

\* (x >> pos) & 1
Bit(x, pos) == (x \div Pow2(pos)) % 2

\* the bit loop of _transfer_byte asks the device once in every pass
QueriesPerByte == 8

\* what transfer_byte of the device returns
DeviceResponse(device, tx_byte) ==
    IF device.kind = "echo" THEN tx_byte
    ELSE IF device.kind = "toggle" THEN (IF device.calls % 2 = 0 THEN 255 ELSE 0)
    ELSE 255

\* the device after queries calls of transfer_byte
Called(device, queries) == [device EXCEPT !.calls = @ + queries]

\* the bit loop of _transfer_byte from bit_num on: rx_byte |= miso_bit << bit_pos,
\* miso_bit being taken from what the device answers in this pass
RECURSIVE ShiftBits(_, _, _, _, _)
ShiftBits(bit_num, lsb_first, has_device, responses, rx_byte) ==
    IF bit_num = 8
    THEN rx_byte
    ELSE LET bit_pos == IF lsb_first THEN bit_num ELSE 7 - bit_num
             miso_bit == IF has_device THEN Bit(responses[bit_num + 1], bit_pos) ELSE 1
         IN  ShiftBits(bit_num + 1, lsb_first, has_device, responses,
                       rx_byte + (IF Bit(rx_byte, bit_pos) = 0
                                  THEN miso_bit * Pow2(bit_pos) ELSE 0))

\* the byte _transfer_byte(tx_byte, chip_select) returns
TransferByte(config, devs, chip_select, tx_byte) ==
    ShiftBits(0, config.lsb_first, chip_select \in DOMAIN devs,
              [q \in 1 .. QueriesPerByte |->
                  IF chip_select \in DOMAIN devs
                  THEN DeviceResponse(Called(devs[chip_select], q - 1), tx_byte)
                  ELSE 255],
              0)

\* the devices after _transfer_byte ran for bytes bytes on chip_select
Queried(devs, chip_select, bytes) ==
    IF chip_select \in DOMAIN devs
    THEN [devs EXCEPT ![chip_select] = Called(@, bytes * QueriesPerByte)]
    ELSE devs

\* the time _transfer_byte takes: eight bits of two half bit times
SpiByteTime(config) == 8 * 2 * (((1000000 * NsPerUs) \div config.speed_hz) \div 2)

\* the bit position the loop of _transfer_byte ends with
LastBitPos(config) == IF config.lsb_first THEN 7 ELSE 0

spiFrame == <<events, next_event_id, pc, target_time_us, executed, fired, cancelled,
              gpioVars, i2cVars, uartVars, verifierVars, detectorVars>>

spi_add_device(chip_select, kind) ==
    /\ IF chip_select \in DOMAIN spi_devices
       THEN /\ last' = Result("add_device", chip_select, 0, "MockException")
            /\ UNCHANGED <<spi_devices, cs_lines>>
       ELSE /\ last' = Result("add_device", chip_select, 0, "none")
            /\ spi_devices' = DictSet(spi_devices, chip_select, SPIDevice(kind, FALSE))
            /\ cs_lines' = DictSet(cs_lines, chip_select, IdleLevel(spi_config))
    /\ UNCHANGED <<spi_config, current_cs, spi_lines, spi_history, spi_metrics,
                   spi_injection, spi_call, virtual_time_us>>
    /\ UNCHANGED spiFrame

configure(config) ==
    /\ spi_config' = config
    /\ spi_lines' = [spi_lines EXCEPT !.sclk = config.mode[1]]
    /\ last' = Result("configure", 0, 0, "none")
    /\ UNCHANGED <<spi_devices, current_cs, cs_lines, spi_history, spi_metrics,
                   spi_injection, spi_call, virtual_time_us>>
    /\ UNCHANGED spiFrame

enable_error_injection ==
    /\ spi_injection' = TRUE
    /\ last' = Result("enable_error_injection", 0, 0, "none")
    /\ UNCHANGED <<spi_config, spi_devices, current_cs, cs_lines, spi_lines, spi_history,
                   spi_metrics, spi_call, virtual_time_us>>
    /\ UNCHANGED spiFrame

\* _assert_cs never tests current_cs
AlreadySelectedIgnored(cs) == FALSE

\* the test of _assert_cs: self.current_cs is not None
AlreadySelected(cs) == cs # NoCS

\* the bus after _assert_cs(chip_select) went past its test of current_cs
AssertCs(lines, devs, config, chip_select) ==
    [cs_lines |-> DictSet(lines, chip_select, AssertLevel(config)),
     current_cs |-> chip_select,
     devices |-> Select(devs, chip_select, TRUE)]

\* the bus after _deassert_cs(chip_select)
DeassertCs(lines, devs, config, chip_select) ==
    [cs_lines |-> DictSet(lines, chip_select, IdleLevel(config)),
     current_cs |-> NoCS,
     devices |-> Select(devs, chip_select, FALSE)]

RecordOperation(metrics, error) ==
    [operations |-> metrics.operations + 1,
     errors |-> metrics.errors + (IF error THEN 1 ELSE 0)]

IdleCall == [state |-> "idle", chip_select |-> NoCS, tx_data |-> <<>>, start_time |-> 0]

\* transfer(tx_data, chip_select) up to the byte loop: it takes the lock and
\* asserts the chip select, or raises from _assert_cs
transfer(tx_data, chip_select) ==
    /\ spi_call.state = "idle"
    /\ spi_metrics.operations < MaxTransfers
    /\ IF AlreadySelected(current_cs)
       THEN /\ spi_metrics' = RecordOperation(spi_metrics, TRUE)
            /\ last' = Result("transfer", chip_select, <<>>, "MockException")
            /\ UNCHANGED <<virtual_time_us, cs_lines, current_cs, spi_devices, spi_call>>
       ELSE LET bus == AssertCs(cs_lines, spi_devices, spi_config, chip_select)
            IN  /\ virtual_time_us' = AdvanceUs(virtual_time_us, 50)
                /\ cs_lines' = bus.cs_lines
                /\ current_cs' = bus.current_cs
                /\ spi_devices' = bus.devices
                /\ spi_call' = [state |-> "transfer", chip_select |-> chip_select,
                                tx_data |-> tx_data, start_time |-> virtual_time_us]
                /\ UNCHANGED <<spi_metrics, last>>
    /\ UNCHANGED <<spi_config, spi_lines, spi_history, spi_injection>>
    /\ UNCHANGED spiFrame

\* the rest of transfer: the byte loop, _deassert_cs and the record, or the
\* exception of the device's transfer_byte, which leaves through the except clause
transfer_bytes ==
    /\ spi_call.state = "transfer"
    /\ LET chip_select == spi_call.chip_select
           tx_data == spi_call.tx_data
           faulty == /\ tx_data # <<>>
                     /\ chip_select \in DOMAIN spi_devices
                     /\ spi_devices[chip_select].kind = "faulty"
           rx_data == [i \in DOMAIN tx_data |->
                          TransferByte(spi_config, Queried(spi_devices, chip_select, i - 1),
                                       chip_select, tx_data[i])]
           t_bytes == virtual_time_us + Len(tx_data) * SpiByteTime(spi_config)
           bus == DeassertCs(cs_lines, Queried(spi_devices, chip_select, Len(tx_data)),
                             spi_config, chip_select)
       IN  IF faulty
           THEN /\ virtual_time_us' = virtual_time_us + SpiByteTime(spi_config) \div 16
                /\ spi_lines' = [mosi |-> Bit(tx_data[1], 7 - LastBitPos(spi_config)),
                                 sclk |-> IF spi_config.mode[2] = 0
                                          THEN 1 - spi_config.mode[1]
                                          ELSE spi_config.mode[1]]
                /\ spi_metrics' = RecordOperation(spi_metrics, TRUE)
                /\ last' = Result("transfer", chip_select, <<>>, "Exception")
                /\ UNCHANGED <<cs_lines, current_cs, spi_devices, spi_history>>
           ELSE /\ virtual_time_us' = AdvanceUs(t_bytes, 50)
                /\ spi_lines' = IF tx_data = <<>> THEN spi_lines
                                ELSE [mosi |-> Bit(tx_data[Len(tx_data)], LastBitPos(spi_config)),
                                      sclk |-> spi_config.mode[1]]
                /\ cs_lines' = bus.cs_lines
                /\ current_cs' = bus.current_cs
                /\ spi_devices' = bus.devices
                /\ spi_history' = Append(spi_history,
                                         [chip_select |-> chip_select, tx_data |-> tx_data,
                                          rx_data |-> rx_data,
                                          timestamp |-> spi_call.start_time,
                                          duration_us |-> AdvanceUs(t_bytes, 50)
                                                             - spi_call.start_time])
                /\ spi_metrics' = RecordOperation(spi_metrics, FALSE)
                /\ last' = Result("transfer", chip_select, rx_data, "none")
    /\ spi_call' = IdleCall
    /\ UNCHANGED <<spi_config, spi_injection>>
    /\ UNCHANGED spiFrame

\* inject_error("cs_glitch"), from the caller or, during a transfer, from another
\* thread: inject_error takes no lock
inject_cs_glitch ==
    /\ virtual_time_us <= Us(MaxTime)
    /\ IF ~spi_injection
       THEN /\ last' = Result("inject_error", 0, 0, "MockException")
            /\ UNCHANGED <<virtual_time_us, cs_lines, current_cs, spi_devices>>
       ELSE IF current_cs = NoCS
       THEN /\ last' = Result("inject_error", 0, 0, "none")
            /\ UNCHANGED <<virtual_time_us, cs_lines, current_cs, spi_devices>>
       ELSE LET cs == current_cs
                off == DeassertCs(cs_lines, spi_devices, spi_config, cs)
                on == AssertCs(off.cs_lines, off.devices, spi_config, cs)
            IN  /\ virtual_time_us' = AdvanceUs(virtual_time_us, 50 + Us(1) + 50)
                /\ cs_lines' = on.cs_lines
                /\ current_cs' = on.current_cs
                /\ spi_devices' = on.devices
                /\ last' = Result("inject_error", 0, 0, "none")
    /\ UNCHANGED <<spi_config, spi_lines, spi_history, spi_metrics, spi_injection, spi_call>>
    /\ UNCHANGED spiFrame

------------------------------------------------------------------------------
(* UARTMock: three UARTs on one TimingEngine, one calling thread per UART *)

UARTs == {1, 2, 3}

\* peer = None
NoPeer == 0

XON == 17
XOFF == 19

\* the byte strings handed to write and inject_rx_data
UartData == {<<XOFF, 65>>, <<XON>>}

ReadSizes == {1, 2}

UARTConfig(flow_control, timeout) ==
    [baudrate |-> 1000000, bytesize |-> 8, parity |-> "none", stopbits |-> 2,
     flow_control |-> flow_control, timeout |-> timeout]

\* the configurations handed to initialize: timeout 0 stands for None, stopbits
\* is held in half bits
FlowConfigs == {UARTConfig("hardware", 0), UARTConfig("software", 0)}

LinkConfigs == {UARTConfig("none", 0), UARTConfig("none", 1)}

UARTFrame(data, timestamp, break_detected) ==
    [data |-> data, timestamp |-> timestamp, parity_error |-> FALSE,
     framing_error |-> FALSE, break_detected |-> break_detected]

\* flow control answers every question with yes
CanTransmitAlways(config, lines) == TRUE

\* _can_transmit
CanTransmit(config, lines) ==
    IF config.flow_control = "hardware" THEN lines.cts
    ELSE IF config.flow_control = "software" THEN ~lines.xoff_received
    ELSE TRUE

\* the time _simulate_byte_transmission spends on one frame
FrameTime(config) ==
    LET bits_per_frame == 1 + config.bytesize
                            + (IF config.parity # "none" THEN 1 ELSE 0)
                            + config.stopbits \div 2
    IN  bits_per_frame * ((1000000 * NsPerUs) \div config.baudrate)

\* the peer is served before the loopback
ReceiverPeerFirst(u) == IF peer[u] # NoPeer THEN peer[u] ELSE IF loopback[u] THEN u ELSE NoPeer

\* the UART whose rx_buffer a frame sent by u is put into, or NoPeer
Receiver(u) == IF loopback[u] THEN u ELSE peer[u]

\* the control byte a frame carries, if it is one
ControlOf(frame, before) ==
    IF frame.break_detected THEN before
    ELSE IF frame.data = XOFF THEN "xoff"
    ELSE IF frame.data = XON THEN "xon"
    ELSE before

\* rx_buffer after a frame sent by u was put into its receiver's queue
PutRx(rx, u, frame) ==
    IF Receiver(u) = NoPeer THEN rx
    ELSE [rx EXCEPT ![Receiver(u)] = Append(@, frame)]

PutControl(ctl, u, frame) ==
    IF Receiver(u) = NoPeer THEN ctl
    ELSE [ctl EXCEPT ![Receiver(u)] = ControlOf(frame, @)]

IdleUart == [op |-> "idle", state |-> "idle", data |-> <<>>, n |-> 0, size |-> 0]

uartFrame == <<events, next_event_id, pc, target_time_us, executed, fired, cancelled,
               gpioVars, i2cVars, spiVars, verifierVars, detectorVars>>

TotalUartOps == uart_metrics[1] + uart_metrics[2] + uart_metrics[3]

initialize_uart(u, config) ==
    /\ uart_config' = [uart_config EXCEPT ![u] = config]
    /\ UNCHANGED <<tx_buffer, rx_buffer, uart_lines, peer, loopback, uart_stats,
                   uart_metrics, uart_call, rx_control, uart_injection, virtual_time_us, last>>
    /\ UNCHANGED uartFrame

connect_peer(u, other) ==
    /\ peer' = [peer EXCEPT ![u] = other, ![other] = u]
    /\ UNCHANGED <<uart_config, tx_buffer, rx_buffer, uart_lines, loopback, uart_stats,
                   uart_metrics, uart_call, rx_control, uart_injection, virtual_time_us, last>>
    /\ UNCHANGED uartFrame

disconnect_peer(u) ==
    /\ peer' = IF peer[u] # NoPeer
               THEN [peer EXCEPT ![peer[u]] = NoPeer, ![u] = NoPeer]
               ELSE peer
    /\ UNCHANGED <<uart_config, tx_buffer, rx_buffer, uart_lines, loopback, uart_stats,
                   uart_metrics, uart_call, rx_control, uart_injection, virtual_time_us, last>>
    /\ UNCHANGED uartFrame

enable_loopback(u, enabled) ==
    /\ loopback' = [loopback EXCEPT ![u] = enabled]
    /\ UNCHANGED <<uart_config, tx_buffer, rx_buffer, uart_lines, peer, uart_stats,
                   uart_metrics, uart_call, rx_control, uart_injection, virtual_time_us, last>>
    /\ UNCHANGED uartFrame

set_rts(u, state) ==
    /\ uart_lines' =
          IF uart_config[u].flow_control = "hardware"
          THEN LET own == [uart_lines EXCEPT ![u].rts = state]
               IN  IF peer[u] # NoPeer THEN [own EXCEPT ![peer[u]].cts = state] ELSE own
          ELSE uart_lines
    /\ UNCHANGED <<uart_config, tx_buffer, rx_buffer, peer, loopback, uart_stats,
                   uart_metrics, uart_call, rx_control, uart_injection, virtual_time_us, last>>
    /\ UNCHANGED uartFrame

\* a test's own assignment to the cts attribute
set_cts(u, state) ==
    /\ uart_lines' = [uart_lines EXCEPT ![u].cts = state]
    /\ UNCHANGED <<uart_config, tx_buffer, rx_buffer, peer, loopback, uart_stats,
                   uart_metrics, uart_call, rx_control, uart_injection, virtual_time_us, last>>
    /\ UNCHANGED uartFrame

\* write(data) up to the first test of flow control
write(u, data) ==
    /\ uart_call[u].op = "idle"
    /\ TotalUartOps < MaxUartOps
    /\ uart_call' = [uart_call EXCEPT ![u] =
                        [op |-> "write", state |-> "check", data |-> data, n |-> 0, size |-> 0]]
    /\ UNCHANGED <<uart_config, tx_buffer, rx_buffer, uart_lines, peer, loopback, uart_stats,
                   uart_metrics, rx_control, uart_injection, virtual_time_us, last>>
    /\ UNCHANGED uartFrame

\* the head of write's loop: no byte is left, or flow control forbids the next
\* one, and write returns bytes_written; or the byte goes on to transmission
write_check(u) ==
    /\ uart_call[u].op = "write" /\ uart_call[u].state = "check"
    /\ IF uart_call[u].n < Len(uart_call[u].data)
          /\ CanTransmit(uart_config[u], uart_lines[u])
       THEN /\ uart_call' = [uart_call EXCEPT ![u].state = "send"]
            /\ UNCHANGED <<uart_metrics, last>>
       ELSE /\ uart_call' = [uart_call EXCEPT ![u] = IdleUart]
            /\ uart_metrics' = [uart_metrics EXCEPT ![u] = @ + 1]
            /\ last' = Result("write", u, uart_call[u].n, "none")
    /\ UNCHANGED <<uart_config, tx_buffer, rx_buffer, uart_lines, peer, loopback, uart_stats,
                   rx_control, uart_injection, virtual_time_us>>
    /\ UNCHANGED uartFrame

\* the rest of one pass of write's loop: the frame time is spent, the frame is
\* put into tx_buffer and into the receiver's rx_buffer
write_send(u) ==
    /\ uart_call[u].op = "write" /\ uart_call[u].state = "send"
    /\ LET now == virtual_time_us + FrameTime(uart_config[u])
           frame == UARTFrame(uart_call[u].data[uart_call[u].n + 1], now, FALSE)
       IN  /\ virtual_time_us' = now
           /\ tx_buffer' = [tx_buffer EXCEPT ![u] = Append(@, frame)]
           /\ rx_buffer' = PutRx(rx_buffer, u, frame)
           /\ rx_control' = PutControl(rx_control, u, frame)
    /\ uart_stats' = [uart_stats EXCEPT ![u].bytes_transmitted = @ + 1]
    /\ uart_call' = [uart_call EXCEPT ![u].state = "check", ![u].n = @ + 1]
    /\ UNCHANGED <<uart_config, uart_lines, peer, loopback, uart_metrics, uart_injection, last>>
    /\ UNCHANGED uartFrame

\* read(size) up to its loop
read(u, size) ==
    /\ uart_call[u].op = "idle"
    /\ TotalUartOps < MaxUartOps
    /\ uart_call' = [uart_call EXCEPT ![u] =
                        [op |-> "read", state |-> "get", data |-> <<>>, n |-> 0, size |-> size]]
    /\ UNCHANGED <<uart_config, tx_buffer, rx_buffer, uart_lines, peer, loopback, uart_stats,
                   uart_metrics, rx_control, uart_injection, virtual_time_us, last>>
    /\ UNCHANGED uartFrame

\* read returns data (or raises) and records the operation
ReadReturns(u, data, raised) ==
    /\ uart_call' = [uart_call EXCEPT ![u] = IdleUart]
    /\ uart_metrics' = [uart_metrics EXCEPT ![u] = @ + 1]
    /\ last' = Result("read", <<u, uart_call[u].size>>, data, raised)

\* xoff_received after read took a data frame
XoffAfter(config, lines, frame) ==
    IF config.flow_control = "software"
    THEN IF frame.data = XOFF THEN [lines EXCEPT !.xoff_received = TRUE]
         ELSE IF frame.data = XON THEN [lines EXCEPT !.xoff_received = FALSE]
         ELSE lines
    ELSE lines

\* read never returns the data it collected before a break
ReturnsPartialNever(data) == FALSE

\* read's test on meeting a break frame: if data
ReturnsPartial(data) == data # <<>>

\* one pass of read's loop that gets a frame from rx_buffer; with the last pass
\* read returns
read_frame(u) ==
    /\ uart_call[u].op = "read"
    /\ rx_buffer[u] # <<>>
    /\ LET frame == Head(rx_buffer[u])
           data == Append(uart_call[u].data, frame.data)
       IN  /\ rx_buffer' = [rx_buffer EXCEPT ![u] = Tail(@)]
           /\ IF frame.break_detected
              THEN /\ IF ReturnsPartial(uart_call[u].data)
                      THEN ReadReturns(u, uart_call[u].data, "none")
                      ELSE ReadReturns(u, <<>>, "MockException")
                   /\ UNCHANGED <<uart_stats, uart_lines>>
              ELSE /\ uart_stats' =
                         [uart_stats EXCEPT
                             ![u].bytes_received = @ + 1,
                             ![u].parity_errors = @ + (IF frame.parity_error THEN 1 ELSE 0),
                             ![u].framing_errors = @ + (IF frame.framing_error THEN 1 ELSE 0)]
                   /\ uart_lines' =
                         [uart_lines EXCEPT ![u] = XoffAfter(uart_config[u], @, frame)]
                   /\ IF uart_call[u].n + 1 = uart_call[u].size
                      THEN ReadReturns(u, data, "none")
                      ELSE /\ uart_call' = [uart_call EXCEPT ![u].data = data, ![u].n = @ + 1]
                           /\ UNCHANGED <<uart_metrics, last>>
    /\ UNCHANGED <<uart_config, tx_buffer, peer, loopback, rx_control, uart_injection, virtual_time_us>>
    /\ UNCHANGED uartFrame

\* a read with a timeout finds its deadline passed, at the head of the loop or
\* waiting for a frame, and returns what it has; a read without one waits
read_timeout(u) ==
    /\ uart_call[u].op = "read"
    /\ uart_config[u].timeout > 0
    /\ ReadReturns(u, uart_call[u].data, "none")
    /\ UNCHANGED <<uart_config, tx_buffer, rx_buffer, uart_lines, peer, loopback, uart_stats,
                   rx_control, uart_injection, virtual_time_us>>
    /\ UNCHANGED uartFrame

flush_input(u) ==
    /\ rx_buffer' = [rx_buffer EXCEPT ![u] = <<>>]
    /\ UNCHANGED <<uart_config, tx_buffer, uart_lines, peer, loopback, uart_stats,
                   uart_metrics, uart_call, rx_control, uart_injection, virtual_time_us, last>>
    /\ UNCHANGED uartFrame

\* send_break(duration): break_condition is True only inside the call
send_break(u, duration_us) ==
    /\ Receiver(u) # NoPeer
    /\ Len(rx_buffer[Receiver(u)]) < MaxFrames
    /\ duration_us > 0 => virtual_time_us < Us(MaxTime)
    /\ rx_buffer' = PutRx(rx_buffer, u, UARTFrame(0, virtual_time_us, TRUE))
    /\ virtual_time_us' = AdvanceUs(virtual_time_us, Us(duration_us))
    /\ UNCHANGED <<uart_config, tx_buffer, uart_lines, peer, loopback, uart_stats,
                   uart_metrics, uart_call, rx_control, uart_injection, last>>
    /\ UNCHANGED uartFrame

RECURSIVE InjectedFrames(_, _)
InjectedFrames(data, now) ==
    IF data = <<>> THEN <<>>
    ELSE <<UARTFrame(Head(data), now, FALSE)>> \o InjectedFrames(Tail(data), now)

RECURSIVE ControlAfter(_, _)
ControlAfter(frames, before) ==
    IF frames = <<>> THEN before
    ELSE ControlAfter(Tail(frames), ControlOf(Head(frames), before))

\* inject_rx_data(data) with no delay between the characters and no errors
inject_rx_data(u, data) ==
    /\ Len(rx_buffer[u]) + Len(data) <= MaxFrames
    /\ rx_buffer' = [rx_buffer EXCEPT ![u] = @ \o InjectedFrames(data, virtual_time_us)]
    /\ rx_control' = [rx_control EXCEPT
                         ![u] = ControlAfter(InjectedFrames(data, virtual_time_us), @)]
    /\ UNCHANGED <<uart_config, tx_buffer, uart_lines, peer, loopback, uart_stats,
                   uart_metrics, uart_call, uart_injection, virtual_time_us, last>>
    /\ UNCHANGED uartFrame

\* enable_error_injection()
uart_enable_error_injection(u) ==
    /\ ~uart_injection[u]
    /\ uart_injection' = [uart_injection EXCEPT ![u] = TRUE]
    /\ UNCHANGED <<uart_config, tx_buffer, rx_buffer, uart_lines, peer, loopback, uart_stats,
                   uart_metrics, uart_call, rx_control, virtual_time_us, last>>
    /\ UNCHANGED uartFrame

\* _handle_injected_error for parity_error and framing_error: the frame taken
\* from rx_buffer with get() is put back with put(), which appends it
FlagFrame(frames, error_type) ==
    Append(Tail(frames), [Head(frames) EXCEPT ![error_type] = TRUE])

\* inject_error(error_type): MockException unless error injection is enabled
inject_frame_error(u, error_type) ==
    /\ uart_call[u].op = "idle"
    /\ IF ~uart_injection[u]
       THEN /\ last' = Result("inject_error", <<u, error_type>>, <<>>, "MockException")
            /\ UNCHANGED <<rx_buffer, rx_control>>
       ELSE /\ last' = Result("inject_error", <<u, error_type>>, <<>>, "none")
            /\ IF rx_buffer[u] = <<>>
               THEN UNCHANGED <<rx_buffer, rx_control>>
               ELSE /\ rx_buffer' = [rx_buffer EXCEPT ![u] = FlagFrame(@, error_type)]
                    /\ rx_control' = [rx_control EXCEPT
                                         ![u] = ControlOf(Head(rx_buffer[u]), @)]
    /\ UNCHANGED <<uart_config, tx_buffer, uart_lines, peer, loopback, uart_stats,
                   uart_metrics, uart_call, uart_injection, virtual_time_us>>
    /\ UNCHANGED uartFrame

------------------------------------------------------------------------------
(* ContractVerifier and the generated GPIO mock: one verifier, one caller *)

\* the longest list of violations a call may start from
MaxViolations == 2
\* DeviceDetectorService.max_retries (REDIS_MAX_RETRIES)
max_retries == 2
\* monitor.poll is called at most MaxPolls times
MaxPolls == 5

\* Python values as the constraint checker sees them
None == [t |-> "none"]
StrValue(s) == [t |-> "str", v |-> s]
IntValue(n) == [t |-> "int", v |-> n]
BoolValue(b) == [t |-> "bool", v |-> b]
DictValue(d) == [t |-> "dict", v |-> d]

\* a constraint of the contract: its text split at the membership sign, if it has one
Membership(var_path, valid_set) == [member |-> TRUE, var_path |-> var_path, valid_set |-> valid_set]
Other(text) == [member |-> FALSE, var_path |-> <<>>, valid_set |-> text]

ValidPins == 2 .. 27
ArgPins == {17, 99}

\* the contract's operations and the keyword arguments the callers pass
Operations == {"initialize", "set_direction", "read", "write", "cleanup"}
NoArgs == [x \in {} |-> None]
Args(operation) ==
    CASE operation = "set_direction" ->
            {[pin_id |-> IntValue(p), direction |-> StrValue(d)] : p \in ArgPins, d \in {"OUTPUT"}}
      [] operation = "read" -> {[pin_id |-> IntValue(p)] : p \in ArgPins}
      [] operation = "write" ->
            {[pin_id |-> IntValue(p), value |-> StrValue(v)] : p \in ArgPins, v \in {"HIGH", "BAD"}}
      [] OTHER -> {NoArgs}

\* the contract document: the clauses of each operation
IsInitialized == Other("gpio.initialized == true")
Preconditions(operation) ==
    CASE operation = "initialize" -> <<Other("gpio.initialized == false")>>
      [] operation = "set_direction" ->
            <<IsInitialized, Membership(<<"pin_id">>, "valid_pins"),
              Membership(<<"direction">>, "{INPUT, OUTPUT}")>>
      [] operation = "read" -> <<IsInitialized, Membership(<<"pin_id">>, "valid_pins")>>
      [] operation = "write" ->
            <<IsInitialized, Membership(<<"pin_id">>, "valid_pins"),
              Membership(<<"value">>, "{HIGH, LOW}")>>
      [] OTHER -> <<IsInitialized>>

Postconditions(operation) ==
    CASE operation = "read" -> <<Membership(<<"result">>, "{HIGH, LOW}")>>
      [] operation = "write" -> <<Other("new.pins[pin_id].value == value")>>
      [] OTHER -> <<>>

InvariantSets ==
    {<<>>,
     <<Membership(<<"pin", "value">>, "{HIGH, LOW}"),
       Membership(<<"pin", "direction">>, "{INPUT, OUTPUT}")>>}
ErrorMaps == {{}, {"RuntimeError"}, {"RuntimeError", "ValueError"}}
Contracts ==
    {[invariants |-> i, errors |-> e, timing |-> t] :
        i \in InvariantSets, e \in ErrorMaps, t \in BOOLEAN}

\* MockState of the generated class after _init_pins
InitialPin == [direction |-> "INPUT", value |-> "LOW", pull |-> "NONE"]
MockState == [initialized |-> FALSE, pins |-> [p \in ArgPins \cap ValidPins |-> InitialPin]]

PinDict(pin) == DictValue([direction |-> StrValue(pin.direction), value |-> StrValue(pin.value),
                      pull |-> StrValue(pin.pull)])
get_state(state) ==
    [gpio |-> DictValue([initialized |-> BoolValue(state.initialized)]),
     pins |-> DictValue([p \in DOMAIN state.pins |-> PinDict(state.pins[p])]),
     pin |-> None]

\* {**a, **b}
Merge(a, b) == [k \in DOMAIN a \cup DOMAIN b |-> IF k \in DOMAIN b THEN b[k] ELSE a[k]]

RECURSIVE get_value_from_path(_, _)
get_value_from_path(parts, value) ==
    IF parts = <<>> THEN value
    ELSE IF value.t = "dict"
         THEN get_value_from_path(Tail(parts),
                  IF Head(parts) \in DOMAIN value.v THEN value.v[Head(parts)] ELSE None)
         ELSE None

IsOneOf(value, strings) == value.t = "str" /\ value.v \in strings

check_constraint(constraint, context) ==
    IF constraint.member
    THEN LET value == get_value_from_path(constraint.var_path, DictValue(context))
         IN  CASE constraint.valid_set = "{HIGH, LOW}" -> IsOneOf(value, {"HIGH", "LOW"})
               [] constraint.valid_set = "{INPUT, OUTPUT}" -> IsOneOf(value, {"INPUT", "OUTPUT"})
               [] constraint.valid_set = "{PULL_UP, PULL_DOWN, NONE}" ->
                      IsOneOf(value, {"PULL_UP", "PULL_DOWN", "NONE"})
               [] constraint.valid_set = "valid_pins" ->
                      value.t = "int" /\ value.v \in ValidPins
               [] OTHER -> TRUE
    ELSE TRUE

verifierFrame == <<virtual_time_us, events, next_event_id, pc, target_time_us, executed,
                   fired, cancelled, gpioVars, i2cVars, spiVars, uartVars, detectorVars>>

ContractViolation(operation, violation_type, expected) ==
    [operation |-> operation, violation_type |-> violation_type, expected |-> expected]

Failing(constraints, context) ==
    {i \in 1 .. Len(constraints) : ~check_constraint(constraints[i], context)}

FirstOf(indexes) == CHOOSE i \in indexes : \A j \in indexes : i <= j

\* a loop that goes on after a failing constraint and appends one violation for
\* each of them
VerifyClauseAll(constraints, context, operation, violation_type) ==
    LET failing == Failing(constraints, context)
        nth(i) == CHOOSE k \in failing : Cardinality({j \in failing : j < k}) = i - 1
    IN  [clause |-> violation_type, failing |-> Cardinality(failing),
         appended |-> [i \in 1 .. Cardinality(failing) |->
                          ContractViolation(operation, violation_type, constraints[nth(i)])],
         returned |-> failing = {}]

\* the loop of verify_invariants, verify_preconditions and verify_postconditions:
\* what it appends and returns, and how many constraints of the clause fail
VerifyClause(constraints, context, operation, violation_type) ==
    LET failing == Failing(constraints, context)
        appended == IF failing = {} THEN <<>>
                    ELSE <<ContractViolation(operation, violation_type,
                                             constraints[FirstOf(failing)])>>
    IN  [clause |-> violation_type, failing |-> Cardinality(failing),
         appended |-> appended, returned |-> failing = {}]

\* verify_timing, late saying that the measured duration exceeds max_latency_us
VerifyTiming(operation, late) ==
    LET fails == contract.timing /\ late
    IN  [clause |-> "timing", failing |-> IF fails THEN 1 ELSE 0,
         appended |-> IF fails THEN <<ContractViolation(operation, "timing", "<= max_latency")>>
                      ELSE <<>>,
         returned |-> ~fails]

Outcome(state, result, raised) == [state |-> state, result |-> result, raised |-> raised]

\* GPIOMock.execute_operation of the generated class
execute_operation(state, operation, kwargs) ==
    LET pins == state.pins
        invalid == kwargs.pin_id.v \notin DOMAIN pins
        pin == pins[kwargs.pin_id.v]
        with(p) == [state EXCEPT !.pins[kwargs.pin_id.v] = p]
    IN  CASE operation = "initialize" ->
                IF state.initialized THEN Outcome(state, None, "RuntimeError")
                ELSE Outcome([initialized |-> TRUE,
                              pins |-> [p \in DOMAIN pins |->
                                          [pins[p] EXCEPT !.direction = "INPUT", !.pull = "NONE"]]],
                             None, "none")
          [] operation = "cleanup" ->
                IF ~state.initialized THEN Outcome(state, None, "RuntimeError")
                ELSE Outcome([initialized |-> FALSE,
                              pins |-> [p \in DOMAIN pins |->
                                          [pins[p] EXCEPT !.direction = "INPUT", !.value = "LOW"]]],
                             None, "none")
          [] operation = "set_direction" ->
                IF ~state.initialized THEN Outcome(state, None, "RuntimeError")
                ELSE IF invalid THEN Outcome(state, None, "ValueError")
                ELSE IF kwargs.direction.v = "OUTPUT"
                     THEN Outcome(with([direction |-> "OUTPUT", value |-> "LOW", pull |-> "NONE"]),
                                  None, "none")
                     ELSE Outcome(with([pin EXCEPT !.direction = kwargs.direction.v]),
                                  None, "none")
          [] operation = "read" ->
                IF ~state.initialized THEN Outcome(state, None, "RuntimeError")
                ELSE IF invalid THEN Outcome(state, None, "ValueError")
                ELSE Outcome(state, StrValue(pin.value), "none")
          [] operation = "write" ->
                IF ~state.initialized THEN Outcome(state, None, "RuntimeError")
                ELSE IF invalid THEN Outcome(state, None, "ValueError")
                ELSE IF pin.direction # "OUTPUT" THEN Outcome(state, None, "RuntimeError")
                ELSE Outcome(with([pin EXCEPT !.value = kwargs.value.v]), None, "none")

\* the instance attributes GPIOMock.__init__ has set when it reads self.contract
AttributesSet == {"state"}
ClassAttributes == {"_init_pins", "get_state", "execute_operation"}
HasAttribute(name) == name \in AttributesSet \cup ClassAttributes

Interfaces == {"GPIO", "PWM"}

generate_mock(interface) ==
    /\ generated' =
          IF interface # "GPIO" THEN [instance |-> FALSE, raised |-> "MockGenerationError"]
          ELSE IF ~HasAttribute("contract") THEN [instance |-> FALSE, raised |-> "AttributeError"]
          ELSE [instance |-> TRUE, raised |-> "none"]
    /\ impl_state' = IF generated'.instance THEN MockState ELSE impl_state
    /\ last' = Result("generate_mock", interface, generated'.instance, generated'.raised)
    /\ UNCHANGED <<contract, violations, impl_raised, checks>>
    /\ UNCHANGED verifierFrame

\* returned by execute_with_verification: the tuple (result, success)
Verified(result, success) == <<result, success>>
Exception(kind) == [t |-> "exception", v |-> kind]

DeclaredAlways(errors, kind) == TRUE

Declared(errors, kind) == kind \in errors

verify_invariants ==
    /\ Len(violations) < MaxViolations
    /\ LET check == VerifyClause(contract.invariants, get_state(impl_state),
                                 "invariant_check", "invariant")
       IN  /\ violations' = violations \o check.appended
           /\ checks' = <<check>>
           /\ last' = Result("verify_invariants", 0, check.returned, "none")
    /\ impl_raised' = "none"
    /\ UNCHANGED <<contract, impl_state, generated>>
    /\ UNCHANGED verifierFrame

verify_preconditions(operation, args) ==
    /\ Len(violations) < MaxViolations
    /\ LET check == VerifyClause(Preconditions(operation),
                                 Merge(get_state(impl_state), args),
                                 operation, "precondition")
       IN  /\ violations' = violations \o check.appended
           /\ checks' = <<check>>
           /\ last' = Result("verify_preconditions", <<operation, args>>, check.returned, "none")
    /\ impl_raised' = "none"
    /\ UNCHANGED <<contract, impl_state, generated>>
    /\ UNCHANGED verifierFrame

execute_with_verification(operation, kwargs, late) ==
    /\ Len(violations) < MaxViolations
    /\ LET call == <<operation, kwargs>>
           old_state == get_state(impl_state)
           pre == VerifyClause(Preconditions(operation), Merge(old_state, kwargs),
                               operation, "precondition")
           outcome == execute_operation(impl_state, operation, kwargs)
           timing == VerifyTiming(operation, late)
           post == VerifyClause(Postconditions(operation),
                                Merge([old |-> DictValue(old_state),
                                       new |-> DictValue(get_state(outcome.state)),
                                       result |-> outcome.result], kwargs),
                                operation, "postcondition")
           inv == VerifyClause(contract.invariants, get_state(outcome.state),
                               "invariant_check", "invariant")
       IN  IF ~pre.returned
           THEN /\ violations' = violations \o pre.appended
                /\ checks' = <<pre>>
                /\ impl_raised' = "none"
                /\ last' = Result("execute_with_verification", call,
                                  Verified(None, FALSE), "none")
                /\ UNCHANGED impl_state
           ELSE IF outcome.raised # "none"
           THEN /\ impl_state' = outcome.state
                /\ impl_raised' = outcome.raised
                /\ checks' = <<pre>>
                /\ last' = IF Declared(contract.errors, outcome.raised)
                           THEN Result("execute_with_verification", call,
                                       Verified(Exception(outcome.raised), TRUE), "none")
                           ELSE Result("execute_with_verification", call,
                                       Verified(None, FALSE), outcome.raised)
                /\ UNCHANGED violations
           ELSE /\ impl_state' = outcome.state
                /\ impl_raised' = "none"
                /\ violations' = violations \o timing.appended \o post.appended \o inv.appended
                /\ checks' = <<pre, timing, post, inv>>
                /\ last' = Result("execute_with_verification", call,
                                  Verified(outcome.result,
                                           timing.returned /\ post.returned /\ inv.returned),
                                  "none")
    /\ UNCHANGED <<contract, generated>>
    /\ UNCHANGED verifierFrame

------------------------------------------------------------------------------
(* DeviceDetectorService.run *)

\* where run() is: not called, at the test of `while self.running`, at the next
\* monitor.poll of the for loop, with a device to process, past stop(), or left
\* through sys.exit(1)
ServiceAt == {"init", "while", "poll", "event", "stopped", "exited"}

InitService ==
    service = [at |-> "init", running |-> FALSE, retry_count |-> 0, polls |-> 0,
               reconnects |-> 0, stops |-> 0]

detectorFrame == <<timingVars, gpioVars, i2cVars, spiVars, uartVars, verifierVars>>

\* run() up to the loop: setup(), then running = True and retry_count = 0
run_service(setup_ok) ==
    /\ service.at = "init"
    /\ service' = IF setup_ok
                  THEN [service EXCEPT !.at = "while", !.running = TRUE, !.retry_count = 0]
                  ELSE [service EXCEPT !.at = "exited"]
    /\ UNCHANGED detectorFrame

\* while self.running: into the for loop, or past the loop to stop()
while_running ==
    /\ service.at = "while"
    /\ service' = IF service.running
                  THEN [service EXCEPT !.at = "poll"]
                  ELSE [service EXCEPT !.at = "stopped", !.stops = @ + 1]
    /\ UNCHANGED detectorFrame

\* the for loop takes the next of iter(monitor.poll, None): a device to process,
\* a device should_process turns down, None, which ends the for loop, or an
\* exception, which leaves the while loop for stop()
monitor_poll(outcome) ==
    /\ service.at = "poll"
    /\ service.polls < MaxPolls
    /\ service' =
           [service EXCEPT
                !.polls = @ + 1,
                !.at = CASE outcome = "device" -> "event"
                         [] outcome = "ignored" -> "poll"
                         [] outcome = "none" -> "while"
                         [] OTHER -> "stopped",
                !.running = IF outcome = "raises" THEN FALSE ELSE @,
                !.stops = IF outcome = "raises" THEN @ + 1 ELSE @]
    /\ UNCHANGED detectorFrame

\* parse_event and publish_event for the device, and the except clauses around
\* them; reconnected is what reconnect_redis returns if it is called
publish_event(outcome, reconnected) ==
    /\ service.at = "event"
    /\ service' =
           CASE outcome = "published" ->
                    [service EXCEPT !.retry_count = 0, !.at = "poll"]
             [] outcome = "ConnectionError" ->
                    IF service.retry_count + 1 >= max_retries
                    THEN [service EXCEPT !.retry_count = @ + 1, !.at = "while"]
                    ELSE [service EXCEPT !.retry_count = @ + 1, !.reconnects = @ + 1,
                                         !.at = "poll"]
             [] OTHER -> [service EXCEPT !.at = "poll"]
    /\ UNCHANGED detectorFrame

------------------------------------------------------------------------------

InitTiming ==
    /\ virtual_time_us = 0
    /\ events = <<>>
    /\ next_event_id = 0
    /\ pc = "idle"
    /\ target_time_us = 0
    /\ executed = 0
    /\ fired = <<>>
    /\ cancelled = {}
    /\ last = Result("init", 0, 0, "none")

InitGPIO ==
    /\ pin_states = EmptyDict
    /\ debounce_us = EmptyDict
    /\ last_edge_time = EmptyDict
    /\ interrupt_queue = <<>>
    /\ operations = 0
    /\ edge_callbacks = EmptyDict
    /\ edges_detected = <<>>
    /\ mock_state = "uninitialized"
    /\ workers = 0
    /\ gpio_injection = FALSE
    /\ interrupt_thread = FALSE
    /\ stuck = EmptyDict

InitI2C ==
    /\ bus_state = "idle"
    /\ bus_speed = 100000
    /\ devices = {}
    /\ transaction_history = <<>>
    /\ i2c_metrics = [operations |-> 0, errors |-> 0]
    /\ bus_trace = <<>>
    /\ i2c_lock = Free
    /\ i2c_call = [t \in Threads |-> IdleBusCall]
    /\ device_pointer = EmptyDict
    /\ scans = 0

InitSPI ==
    /\ spi_config = SPIConfig(<<0, 0>>, FALSE, FALSE)
    /\ spi_devices = EmptyDict
    /\ current_cs = NoCS
    /\ cs_lines = EmptyDict
    /\ spi_lines = [mosi |-> 0, sclk |-> 0]
    /\ spi_history = <<>>
    /\ spi_metrics = [operations |-> 0, errors |-> 0]
    /\ spi_injection = FALSE
    /\ spi_call = IdleCall

InitUART ==
    /\ uart_config = [u \in UARTs |-> UARTConfig("none", 0)]
    /\ tx_buffer = [u \in UARTs |-> <<>>]
    /\ rx_buffer = [u \in UARTs |-> <<>>]
    /\ uart_lines = [u \in UARTs |-> [rts |-> TRUE, cts |-> TRUE, xoff_received |-> FALSE]]
    /\ peer = [u \in UARTs |-> NoPeer]
    /\ loopback = [u \in UARTs |-> FALSE]
    /\ uart_stats = [u \in UARTs |-> [bytes_transmitted |-> 0, bytes_received |-> 0,
                                      parity_errors |-> 0, framing_errors |-> 0]]
    /\ uart_metrics = [u \in UARTs |-> 0]
    /\ uart_call = [u \in UARTs |-> IdleUart]
    /\ rx_control = [u \in UARTs |-> "none"]
    /\ uart_injection = [u \in UARTs |-> FALSE]

InitImplementation ==
    /\ impl_state = MockState
    /\ violations = <<>>
    /\ generated = [instance |-> FALSE, raised |-> "none"]
    /\ impl_raised = "none"
    /\ checks = <<>>

InitVerifier ==
    /\ contract = [invariants |-> <<>>, errors |-> {}, timing |-> FALSE]
    /\ InitImplementation

\* the verifier constructed with any of the contracts
InitContracts ==
    /\ InitTiming /\ InitGPIO /\ InitI2C /\ InitSPI /\ InitUART /\ InitService
    /\ contract \in Contracts
    /\ InitImplementation

Init ==
    InitTiming /\ InitGPIO /\ InitI2C /\ InitSPI /\ InitUART /\ InitVerifier /\ InitService

\* the calls on a TimingEngine, with the delays drawn from the given sets
TimingCalls(delays, child_delays) ==
    \/ \E d \in delays, cb \in UserCallbacks(child_delays) : schedule_event(d, cb)
    \/ \E id \in 0 .. MaxEvents - 1 : cancel_event(id)
    \/ \E t \in Targets : run_until(Us(t))
    \/ \E d \in {1} : run_for(d)
    \/ run_until_step
    \/ \E d \in {1} : delay_us(d)

NextTiming == TimingCalls(Delays, ChildDelays) /\ UNCHANGED <<gpioVars, i2cVars, spiVars, uartVars, verifierVars, detectorVars>>

SpecTiming == Init /\ [][NextTiming]_vars

\* the engine driven with non-negative delays only
NextTimingNonNeg ==
    TimingCalls(NonNegDelays, NonNegChildDelays) /\ UNCHANGED <<gpioVars, i2cVars, spiVars, uartVars, verifierVars, detectorVars>>

SpecTimingNonNeg == Init /\ [][NextTimingNonNeg]_vars

\* a GPIOMock and the TimingEngine it schedules its edges on
GpioCalls ==
    \/ \E pin \in EdgePins, mode \in {"input", "output"}, pull \in {"off", "up", "down"} :
          operations < MaxOps - 1 /\ setup(pin, mode, pull)
    \/ \E pin \in EdgePins, value \in {0, 1} :
          operations < MaxOps - 1 /\ output(pin, value)
    \/ \E pin \in EdgePins, value \in {0, 1}, delay \in {0, 1} :
          simulate_edge(pin, value, delay)
    \/ \E t \in Targets : run_until(Us(t)) /\ UNCHANGED gpioVars
    \/ run_until_step

\* a GPIOMock whose pin is watched for edges, and its interrupt thread
DebounceCalls ==
    \/ initialize_gpio
    \/ \E pin \in EdgePins : operations < MaxOps - 1 /\ setup(pin, "input", "off")
    \/ \E pin \in EdgePins, edge \in EdgeTypes, bouncetime \in Bouncetimes :
          add_event_detect(pin, edge, TRUE, bouncetime)
    \/ \E pin \in EdgePins, value \in {0, 1}, delay \in {0, 1} :
          simulate_edge(pin, value, delay)
    \/ \E t \in {MaxTime} : run_until(Us(t)) /\ UNCHANGED gpioVars
    \/ run_until_step
    \/ interrupt_processor

\* a GPIOMock with two pins, its lifecycle and its stuck_pin fault
PinCalls ==
    \/ initialize_gpio
    \/ shutdown_gpio
    \/ interrupt_exit
    \/ \E pin \in Pins, mode \in {"input", "output"}, pull \in {"off", "up"} :
          setup(pin, mode, pull)
    \/ \E pin \in Pins, value \in {0, 1} : output(pin, value)
    \/ \E pin \in Pins : input(pin)
    \/ \E pin \in EdgePins, value \in {0, 1} : simulate_edge(pin, value, 0)
    \/ gpio_enable_error_injection
    \/ \E pin \in EdgePins, value \in {0, 1} : inject_stuck_pin(pin, value)

NextPins == PinCalls /\ UNCHANGED <<i2cVars, spiVars, uartVars, verifierVars, detectorVars>>

SpecPins == Init /\ [][NextPins]_vars

\* the steps of the threads that run _interrupt_processor
worker_delivers ==
    interrupt_processor /\ UNCHANGED <<i2cVars, spiVars, uartVars, verifierVars, detectorVars>>

worker_exits ==
    interrupt_exit /\ UNCHANGED <<i2cVars, spiVars, uartVars, verifierVars, detectorVars>>

\* a GPIOMock that is initialized and shut down while edges arrive on a pin with
\* a callback
DeliveryCalls ==
    \/ initialize_gpio
    \/ shutdown_gpio
    \/ \E pin \in EdgePins : operations < MaxOps - 1 /\ setup(pin, "input", "off")
    \/ \E pin \in EdgePins : add_event_detect(pin, "both", TRUE, 0)
    \/ \E pin \in EdgePins, value \in {0, 1} : simulate_edge(pin, value, 0)

NextDelivery ==
    \/ DeliveryCalls /\ UNCHANGED <<i2cVars, spiVars, uartVars, verifierVars, detectorVars>>
    \/ worker_delivers
    \/ worker_exits

\* a live worker thread is scheduled again and again: it takes what is at the
\* head of the queue, and it tests the state of the mock
SpecDelivery ==
    Init /\ [][NextDelivery]_vars /\ WF_vars(worker_delivers) /\ WF_vars(worker_exits)

NextDebounce == DebounceCalls /\ UNCHANGED <<i2cVars, spiVars, uartVars, verifierVars, detectorVars>>

SpecDebounce == Init /\ [][NextDebounce]_vars

NextGPIO == GpioCalls /\ UNCHANGED <<i2cVars, spiVars, uartVars, verifierVars, detectorVars>>

SpecGPIO == Init /\ [][NextGPIO]_vars

\* an I2CMock
NextI2C ==
    \/ \E speed \in I2CSpeed : initialize_i2c(speed)
    \/ \E address \in Addresses : add_device(address)
    \/ \E address \in Addresses : remove_device(address)
    \/ \E address \in Addresses, data \in WriteData, n \in ReadLengths :
          write_read(address, data, n)

SpecI2C == Init /\ [][NextI2C]_vars

\* the addresses devices are registered at, for scan: the ends of the range
\* scan probes and their neighbours outside it
ScanDevices == {7, 8, 119, 120}

\* an I2CMock whose caller scans the bus, clears the history and shuts it down
NextI2CScan ==
    \/ \E address \in ScanDevices : add_device(address)
    \/ \E address \in ScanDevices : remove_device(address)
    \/ \E address \in {8, 72}, data \in {<<0>>}, n \in ReadLengths :
          write_read(address, data, n)
    \/ scan
    \/ clear_transaction_history
    \/ shutdown_i2c

SpecI2CScan == Init /\ [][NextI2CScan]_vars

\* an I2CMock with a register device, called by two threads
NextI2CBus ==
    \/ \E address \in RegisterAddresses : add_register_device(address)
    \/ \E address \in RegisterAddresses, data \in {<<1>>} : device_write(address, data)
    \/ \E t \in Threads, address \in BusAddresses, data \in RegisterData, n \in ReadLengths :
          write_read_begin(t, address, data, n)
    \/ \E t \in Threads : scan_begin(t)
    \/ \E t \in Threads :
          \/ acquire_lock(t)
          \/ simulate_start_condition(t)
          \/ send_address(t)
          \/ send_byte(t)
          \/ simulate_repeated_start(t)
          \/ receive_bytes(t)
          \/ simulate_stop_condition(t)

SpecI2CBus == Init /\ [][NextI2CBus]_vars

\* an SPIMock, its caller and a thread that injects chip-select glitches
NextSPI ==
    \/ \E cs \in ChipSelects, kind \in AddedKinds : spi_add_device(cs, kind)
    \/ \E config \in Configs : configure(config)
    \/ enable_error_injection
    \/ \E tx \in TxData, cs \in ChipSelects : transfer(tx, cs)
    \/ transfer_bytes
    \/ inject_cs_glitch

SpecSPI == Init /\ [][NextSPI]_vars

\* every clock mode and both bit orders
TransferConfigs ==
    {SPIConfig(<<cpol, cpha>>, lsb_first, FALSE) :
        cpol \in {0, 1}, cpha \in {0, 1}, lsb_first \in BOOLEAN}

\* the data handed to transfer: one byte, or two
TransferData == {<<165>>, <<165, 60>>}

\* an SPIMock with an echoing device or a device with state on chip select 0
\* and none on chip select 1
NextSPITransfer ==
    \/ \E kind \in {"echo", "toggle"} : spi_add_device(0, kind)
    \/ \E config \in TransferConfigs : configure(config)
    \/ \E tx \in TransferData, cs \in ChipSelects : transfer(tx, cs)
    \/ transfer_bytes

SpecSPITransfer == Init /\ [][NextSPITransfer]_vars

\* two UARTMocks under flow control: UART 1 writes, to itself in loopback or to
\* its peer, UART 2, and reads what arrives in its own receive queue
NextUartFlow ==
    \/ \E config \in FlowConfigs : initialize_uart(1, config)
    \/ connect_peer(1, 2)
    \/ \E enabled \in BOOLEAN : enable_loopback(1, enabled)
    \/ \E state \in BOOLEAN : set_cts(1, state)
    \/ \E data \in UartData : write(1, data)
    \/ write_check(1)
    \/ write_send(1)
    \/ \E size \in ReadSizes : read(1, size)
    \/ read_frame(1)
    \/ \E data \in UartData : inject_rx_data(1, data)

SpecUartFlow == Init /\ [][NextUartFlow]_vars

\* two UARTMocks without flow control: UART 1 writes, reads, loops back and
\* sends breaks; UART 2 is its peer and reads
NextUartLink ==
    \/ \E config \in LinkConfigs : initialize_uart(1, config)
    \/ connect_peer(1, 2)
    \/ \E enabled \in BOOLEAN : enable_loopback(1, enabled)
    \/ \E data \in UartData : write(1, data)
    \/ write_check(1)
    \/ write_send(1)
    \/ \E u \in {1, 2}, size \in ReadSizes : read(u, size)
    \/ \E u \in {1, 2} : read_frame(u)
    \/ read_timeout(1)
    \/ send_break(1, 0)

SpecUartLink == Init /\ [][NextUartLink]_vars

\* three UARTMocks connected to and disconnected from one another in any order,
\* while UART 1 writes to whatever peer it has
NextUartPeers ==
    \/ \E u \in UARTs : \E other \in UARTs \ {u} : connect_peer(u, other)
    \/ \E u \in UARTs : disconnect_peer(u)
    \/ \E data \in UartData : write(1, data)
    \/ write_check(1)
    \/ write_send(1)

SpecUartPeers == Init /\ [][NextUartPeers]_vars

\* the error types that flag a queued frame
FrameErrors == {"parity_error", "framing_error"}

\* one UARTMock whose receive queue is filled by the test, flagged by injected
\* errors and read
NextUartInject ==
    \/ \E config \in LinkConfigs : initialize_uart(1, config)
    \/ \E data \in UartData : inject_rx_data(1, data)
    \/ uart_enable_error_injection(1)
    \/ \E error_type \in FrameErrors : inject_frame_error(1, error_type)
    \/ \E size \in ReadSizes : read(1, size)
    \/ read_frame(1)
    \/ read_timeout(1)

SpecUartInject == Init /\ [][NextUartInject]_vars

NextVerifier ==
    \/ \E interface \in Interfaces : generate_mock(interface)
    \/ verify_invariants
    \/ \E operation \in Operations : \E args \in Args(operation) :
          verify_preconditions(operation, args)
    \/ \E operation \in Operations : \E kwargs \in Args(operation) : \E late \in BOOLEAN :
          execute_with_verification(operation, kwargs, late)

SpecVerifier == InitContracts /\ [][NextVerifier]_vars

\* DeviceDetectorService.run() and what the monitor and Redis do to it
NextDetector ==
    \/ \E setup_ok \in BOOLEAN : run_service(setup_ok)
    \/ while_running
    \/ \E outcome \in {"device", "ignored", "none", "raises"} : monitor_poll(outcome)
    \/ \E outcome \in {"published", "ConnectionError", "Exception"},
          reconnected \in BOOLEAN : publish_event(outcome, reconnected)

SpecDetector == Init /\ [][NextDetector]_vars

------------------------------------------------------------------------------
(* The claims *)

\* run_until has just returned: fired, events and the clock are as it left them,
\* last.arg is its target
RunReturned == pc = "idle" /\ last.op = "run_until"

FiredIds == {fired[i].event_id : i \in DOMAIN fired}

\* C1: whenever write_read has ended, by returning or by raising, the bus state is
\* idle; in particular it is idle after write_read to an address without a device
\* has raised. (Under SpecI2C.)
C1_BusIdleAfterTransaction == last.op = "write_read" => bus_state = "idle"

\* the chip-select lines at the level _assert_cs drives
AssertedLines == {cs \in DOMAIN cs_lines : cs_lines[cs] = AssertLevel(spi_config)}

\* C10: at most one chip-select line is at the asserted level, and if one is,
\* current_cs names it. (Under SpecSPI.)
C10_OneChipSelect ==
    /\ Cardinality(AssertedLines) <= 1
    /\ AssertedLines # {} => AssertedLines = {current_cs}

\* a step in which transfer called _assert_cs: it took the lock and went on, or
\* it left through the except clause
AssertCsStep ==
    /\ spi_call.state = "idle"
    /\ spi_call'.state = "transfer" \/ spi_metrics' # spi_metrics

\* C11: _assert_cs called while a chip select is asserted raises (MockException,
\* "Another device is already selected"), and current_cs and every chip-select
\* line stay as they were; called while none is asserted it does not raise.
C11_SecondAssertFails ==
    [][AssertCsStep =>
          IF current_cs # NoCS
          THEN /\ last'.op = "transfer" /\ last'.raised = "MockException"
               /\ current_cs' = current_cs
               /\ cs_lines' = cs_lines
               /\ spi_devices' = spi_devices
               /\ spi_call'.state = "idle"
          ELSE /\ spi_call'.state = "transfer"
               /\ last' = last]_vars

\* a transfer on one chip select was refused while the other one was asserted
C11_Witness ==
    /\ last.op = "transfer" /\ last.raised = "MockException"
    /\ current_cs # NoCS /\ last.arg # current_cs
    /\ Cardinality(DOMAIN cs_lines) = 2

\* flow control forbids UART u to transmit: hardware mode with CTS deasserted,
\* or software mode with XOFF in effect
FlowForbids(u) ==
    \/ uart_config[u].flow_control = "hardware" /\ ~uart_lines[u].cts
    \/ uart_config[u].flow_control = "software" /\ uart_lines[u].xoff_received

\* write's loop on UART u tests flow control in this step
FlowTested(u) ==
    /\ uart_call[u].op = "write" /\ uart_call[u].state = "check"
    /\ uart_call'[u] # uart_call[u]
    /\ uart_call[u].n < Len(uart_call[u].data)

\* C12: a byte goes to transmission only if flow control permitted it when write
\* tested it; if flow control forbids it, write returns the count of the bytes
\* sent so far (a short count) without raising, and no buffer gains a frame;
\* tx_buffer gains one frame per counted byte and none besides. (Under SpecUartFlow.)
C12_BlockedBytesNotEnqueued ==
    /\ [][\A u \in UARTs :
            /\ FlowTested(u) =>
                  IF FlowForbids(u)
                  THEN /\ last' = Result("write", u, uart_call[u].n, "none")
                       /\ last'.ret < Len(uart_call[u].data)
                       /\ uart_call'[u].op = "idle"
                       /\ tx_buffer' = tx_buffer /\ rx_buffer' = rx_buffer
                  ELSE /\ uart_call'[u].state = "send"
                       /\ tx_buffer' = tx_buffer /\ rx_buffer' = rx_buffer
            /\ tx_buffer'[u] # tx_buffer[u] =>
                  /\ uart_call[u].state = "send"
                  /\ uart_call'[u].n = uart_call[u].n + 1
                  /\ Len(tx_buffer'[u]) = Len(tx_buffer[u]) + 1]_vars
    /\ [](\A u \in UARTs : Len(tx_buffer[u]) = uart_stats[u].bytes_transmitted)
    /\ [](last.op = "write" => last.raised = "none")

\* in hardware mode write sent one byte to the peer, CTS was deasserted, and
\* write returned the short count 1
C12_Witness ==
    /\ last.op = "write" /\ last.ret = 1
    /\ uart_call[1].op = "idle"
    /\ uart_config[1].flow_control = "hardware" /\ ~uart_lines[1].cts
    /\ Len(tx_buffer[1]) = 1 /\ Len(rx_buffer[2]) = 1

\* C13: in software mode write's test of flow control fails exactly when the
\* last control byte that arrived in the UART's receive queue was XOFF.
\* (Under SpecUartFlow.)
C13_BlockedWhileXoffArrived ==
    [][\A u \in UARTs :
          FlowTested(u) /\ uart_config[u].flow_control = "software" =>
             (uart_call'[u].state = "send" <=> rx_control[u] # "xoff")]_vars

\* the data a read on UART u has collected after a step: what it returned, or
\* what it holds
Collected(u) == IF uart_call'[u].op = "read" THEN uart_call'[u].data ELSE last'.ret

\* a read on UART u takes the head of the receive queue in this step
FrameTaken(u) ==
    /\ uart_call[u].op = "read"
    /\ rx_buffer[u] # <<>> /\ rx_buffer'[u] = Tail(rx_buffer[u])

\* C14: a frame that write sends is put at the tail of exactly one receive queue,
\* the writer's own with loopback, else the peer's, else none; a receive queue
\* only grows at its tail and shrinks at its head, and read appends the head's
\* byte to what it returns, so the receiver reads the bytes in the order they
\* were written. (Under SpecUartLink.)
C14_DeliveredInOrder ==
    /\ [][\A u \in UARTs :
            /\ tx_buffer'[u] # tx_buffer[u] =>
                  LET frame == tx_buffer'[u][Len(tx_buffer'[u])]
                      to == IF loopback[u] THEN u ELSE peer[u]
                  IN  /\ frame.data = uart_call[u].data[uart_call[u].n + 1]
                      /\ \A r \in UARTs :
                            rx_buffer'[r] = IF r = to THEN Append(rx_buffer[r], frame)
                                            ELSE rx_buffer[r]
            /\ rx_buffer'[u] # rx_buffer[u] =>
                  \/ /\ Len(rx_buffer'[u]) = Len(rx_buffer[u]) + 1
                     /\ SubSeq(rx_buffer'[u], 1, Len(rx_buffer[u])) = rx_buffer[u]
                  \/ /\ uart_call[u].op = "read"
                     /\ rx_buffer'[u] = Tail(rx_buffer[u])
                     /\ ~Head(rx_buffer[u]).break_detected =>
                           Collected(u) = Append(uart_call[u].data, Head(rx_buffer[u]).data)]_vars
    /\ [](\A u \in UARTs : \A i, j \in DOMAIN rx_buffer[u] :
             i < j => rx_buffer[u][i].timestamp <= rx_buffer[u][j].timestamp)

\* UART 2 read the two bytes its peer wrote, in order
C14_Witness ==
    /\ last.op = "read" /\ last.arg = <<2, 2>> /\ last.ret = <<XOFF, 65>>
    /\ Len(tx_buffer[1]) = 2 /\ rx_buffer[1] = <<>>

\* C15: a read that takes a break frame returns the data it has collected if it
\* has any, and raises (MockException, "Break condition detected") if it has
\* none; a data frame it takes is appended to the data it returns.
\* (Under SpecUartLink.)
C15_BreakEndsRead ==
    [][\A u \in UARTs :
          FrameTaken(u) =>
             IF Head(rx_buffer[u]).break_detected
             THEN /\ uart_call'[u].op = "idle"
                  /\ last' = IF uart_call[u].data # <<>>
                             THEN Result("read", <<u, uart_call[u].size>>, uart_call[u].data, "none")
                             ELSE Result("read", <<u, uart_call[u].size>>, <<>>, "MockException")
             ELSE /\ Collected(u) = Append(uart_call[u].data, Head(rx_buffer[u]).data)
                  /\ uart_call'[u].op = "idle" => last'.raised = "none"]_vars

\* a read of two bytes without a timeout returned the one byte queued before a break
C15_Witness ==
    /\ last.op = "read" /\ last.arg = <<1, 2>> /\ last.raised = "none" /\ Len(last.ret) = 1
    /\ uart_config[1].timeout = 0
    /\ rx_buffer[1] = <<>> /\ uart_stats[1].bytes_received = 1

C3_ClockMonotonic == [][virtual_time_us' >= virtual_time_us]_vars

\* C4: when run_until(target) returns, the events it executed have non-decreasing
\* fire times, all of them <= target, no event with fire time <= target is left
\* pending, and the clock equals target.
C4_RunUntilInOrder ==
    RunReturned =>
        /\ \A i, j \in DOMAIN fired : i < j => fired[i].time_us <= fired[j].time_us
        /\ \A i \in DOMAIN fired : fired[i].time_us <= last.arg
        /\ \A k \in DOMAIN events : events[k].time_us > last.arg
        /\ virtual_time_us = last.arg

\* C5: events with the same fire time are executed in the order they were
\* scheduled, that is by ascending event id.
C5_TiesInScheduleOrder ==
    RunReturned =>
        \A i, j \in DOMAIN fired :
            (i < j /\ fired[i].time_us = fired[j].time_us)
                => fired[i].event_id < fired[j].event_id

ChildOf(e, parent) == e.callback.kind = "child" /\ e.callback.b = parent.event_id

\* C6: when run_until(target) returns, the event that an executed callback
\* scheduled was executed after it in the same call if its fire time is <= target,
\* and is pending (and was not executed) otherwise.
C6_ChildInSameRun ==
    RunReturned =>
        \A i \in DOMAIN fired :
            fired[i].callback.kind = "sched" =>
                LET child_time == fired[i].time_us + Us(fired[i].callback.a)
                    ran == \E j \in DOMAIN fired :
                              /\ j > i
                              /\ ChildOf(fired[j], fired[i])
                              /\ fired[j].time_us = child_time
                    pending == \E k \in DOMAIN events :
                                  /\ ChildOf(events[k], fired[i])
                                  /\ events[k].time_us = child_time
                IN  IF child_time <= last.arg THEN ran /\ ~pending ELSE pending /\ ~ran

\* a callback scheduled an event with fire time <= target and run_until executed both
C6_Witness ==
    /\ RunReturned
    /\ \E i, j \in DOMAIN fired :
          /\ fired[i].callback.kind = "sched"
          /\ ChildOf(fired[j], fired[i])
          /\ fired[i].callback.a > 0

CancelStep == last' # last /\ last'.op = "cancel_event"

\* C7: cancel_event(id) returns True exactly when id is the id of a pending event,
\* and then removes that event and no other; otherwise it returns False and leaves
\* the queue as it was. No cancelled event is pending or executed afterwards.
C7_Cancel ==
    /\ [][CancelStep =>
            /\ last'.ret = (last'.arg \in PendingIds)
            /\ last'.ret => /\ PendingIds' = PendingIds \ {last'.arg}
                            /\ Len(events') = Len(events) - 1
            /\ ~last'.ret => events' = events]_vars
    /\ [](cancelled \cap (PendingIds \cup FiredIds) = {})

\* an event was cancelled and a later run_until executed other events
C7_Witness == RunReturned /\ cancelled # {} /\ fired # <<>> /\ events # <<>>

\* C8: schedule_event with a negative delay fails with InvalidArgument and leaves
\* the queue as it was.
C8_NegativeDelayRejected ==
    [][(last' # last /\ last'.op = "schedule_event" /\ last'.arg < 0)
          => (last'.raised = "InvalidArgument" /\ events' = events)]_vars

\* C9: an exception raised by a callback does not leave run_until: the call
\* returns normally, and only once no pending event has a fire time <= target.
C9_RaiseIsolated ==
    RunReturned =>
        /\ last.raised = "none"
        /\ \A k \in DOMAIN events : events[k].time_us > last.arg
        /\ last.ret = Cardinality({i \in DOMAIN fired : fired[i].callback.kind # "raise"})

\* a callback raised and run_until went on to execute a later event
C9_Witness ==
    /\ RunReturned
    /\ \E i, j \in DOMAIN fired :
          i < j /\ fired[i].callback.kind = "raise" /\ fired[j].callback.kind # "raise"

\* a call of execute_with_verification returned or raised in this step
ExecuteStep ==
    /\ last'.op = "execute_with_verification"
    /\ <<last, verifierVars>>' # <<last, verifierVars>>

\* C16: execute_with_verification of an operation other than initialize on an
\* implementation that is not initialized returns (None, False) without raising,
\* appends a precondition violation and does not execute the operation.
C16_BeforeInitializeRejected ==
    [][(ExecuteStep /\ ~impl_state.initialized /\ last'.arg[1] # "initialize")
          => /\ last'.raised = "none"
             /\ last'.ret = Verified(None, FALSE)
             /\ Len(violations') = Len(violations) + 1
             /\ violations'[Len(violations')].violation_type = "precondition"
             /\ impl_state' = impl_state]_vars

\* C17: every clause check of a verifier call appends one violation for each
\* constraint of the clause that fails, and returns false iff it appended one.
C17_CompleteReport ==
    \A i \in DOMAIN checks :
        /\ Len(checks[i].appended) = checks[i].failing
        /\ checks[i].returned <=> (checks[i].appended = <<>>)

\* C18: when the implementation raises inside execute_with_verification, the call
\* returns (exception, True) if the exception's kind is a key of the operation's
\* errors map and raises it otherwise; no violation is appended in either case.
C18_DeclaredErrorsAbsorbed ==
    [][(ExecuteStep /\ impl_raised' # "none")
          => /\ violations' = violations
             /\ IF impl_raised' \in contract.errors
                THEN /\ last'.raised = "none"
                     /\ last'.ret = Verified(Exception(impl_raised'), TRUE)
                ELSE last'.raised = impl_raised']_vars

\* the implementation raised a declared error after violations had been recorded
C18_Witness ==
    /\ last.op = "execute_with_verification"
    /\ impl_raised = "RuntimeError"
    /\ last.raised = "none"
    /\ last.ret[2]
    /\ violations # <<>>

\* C19: generate_mock for the GPIO interface returns an instance, not initialized,
\* with every pin INPUT, LOW and NONE.
C19_GeneratedMockSatisfiesInvariants ==
    (last.op = "generate_mock" /\ last.arg = "GPIO")
        => /\ last.raised = "none"
           /\ generated.instance
           /\ ~impl_state.initialized
           /\ \A p \in DOMAIN impl_state.pins : impl_state.pins[p] = InitialPin

\* the events pushed for the pin so far: those delivered and those still queued
Pushed(pin) ==
    {e \in {edges_detected[i] : i \in DOMAIN edges_detected}
           \cup {interrupt_queue[i] : i \in DOMAIN interrupt_queue} : e.pin = pin}

\* C20: of two simulated edges on a watched input pin that fire fewer than
\* debounce_us apart only the first is delivered: an edge is pushed to the queue
\* only if no edge pushed before it on that pin is less than debounce_us old, and
\* the interrupt thread invokes the pin's callback once for each pushed edge.
C20_OneCallbackPerWindow ==
    /\ [][(Len(interrupt_queue') = Len(interrupt_queue) + 1)
             => LET event == interrupt_queue'[Len(interrupt_queue')]
                IN  \A e \in Pushed(event.pin) :
                       event.timestamp - e.timestamp >= DictGet(debounce_us, event.pin, 0)]_vars
    /\ [][(interrupt_queue # <<>> /\ Len(interrupt_queue') < Len(interrupt_queue)
              /\ DictGet(edge_callbacks, Head(interrupt_queue).pin, 0) = 1)
             => edges_detected' = Append(edges_detected, Head(interrupt_queue))]_vars

\* the callback was invoked for a first edge, and run_until fired a second edge that
\* would change the pin's value less than debounce_us later: it was dropped
C20_Witness ==
    /\ Len(edges_detected) = 1
    /\ interrupt_queue = <<>>
    /\ \E i \in DOMAIN fired :
          /\ fired[i].callback.kind = "edge"
          /\ fired[i].callback.a = edges_detected[1].pin
          /\ fired[i].callback.b # pin_states[edges_detected[1].pin].value
          /\ fired[i].time_us > edges_detected[1].timestamp
          /\ fired[i].time_us - edges_detected[1].timestamp
                < DictGet(debounce_us, edges_detected[1].pin, 0)

\* run_until fired a scheduled edge in this step
EdgeFired ==
    /\ Len(fired') = Len(fired) + 1
    /\ fired'[Len(fired')].callback.kind = "edge"

\* C21: an edge that would change the pin's value is dropped if and only if it
\* fires less than debounce_us after the most recent edge delivered on that pin.
C21_WindowFromLastDelivered ==
    [][EdgeFired =>
          LET event == fired'[Len(fired')]
              pin == event.callback.a
          IN  (pin \in DOMAIN pin_states /\ event.callback.b # pin_states[pin].value)
                 => ((pin_states'[pin].value = pin_states[pin].value)
                        <=> \E e \in Pushed(pin) :
                               event.time_us - e.timestamp < DictGet(debounce_us, pin, 0))]_vars

\* C22: an edge record is pushed to the queue exactly when an applied edge changes
\* the pin's value and the transition matches the watched edge type; the record
\* holds the transition and the new value.
C22_PushedIffMatchingTransition ==
    [][(operations' = operations) =>
          \A pin \in EdgePins :
             LET pushed == /\ Len(interrupt_queue') = Len(interrupt_queue) + 1
                           /\ interrupt_queue'[Len(interrupt_queue')].pin = pin
                 changed == /\ pin \in DOMAIN pin_states
                            /\ pin_states'[pin].value # pin_states[pin].value
                 edge_type == IF pin_states[pin].value = 0 THEN "rising" ELSE "falling"
                 watched == pin_states[pin].edge_detection
             IN  /\ pushed <=> (changed /\ (watched = "both" \/ watched = edge_type))
                 /\ pushed => LET event == interrupt_queue'[Len(interrupt_queue')]
                              IN  /\ event.edge_type = edge_type
                                  /\ event.value = pin_states'[pin].value]_vars

\* a falling edge was pushed for a pin watched for falling edges, after a rising
\* transition of that pin that pushed nothing
C22_Witness ==
    /\ 17 \in DOMAIN pin_states
    /\ pin_states[17].edge_detection = "falling"
    /\ Len(interrupt_queue) + Len(edges_detected) = 1
    /\ \E e \in Pushed(17) : e.edge_type = "falling" /\ e.value = 0

\* C23: from every reachable state, setup(p, 'output') followed by output(p, s)
\* succeeds and input(p) then returns s, for every pin p and value s.
C23_ReadAfterWrite ==
    \A p \in Pins, s \in {0, 1}, pull \in {"off", "up", "down"} :
        LET configured == SetupPin(pin_states, p, "output", pull)
        IN  /\ ~RejectsWrite(configured, p)
            /\ InputPin(OutputPin(configured, p, s), p) = s

\* input returned the 1 written to an output pin
C23_Witness ==
    /\ last.op = "input"
    /\ last.raised = "none"
    /\ last.ret = 1
    /\ pin_states[last.arg].mode = "output"

\* a call of output returned or raised in this step
OutputStep == operations' = operations + 1 /\ last'.op = "output"

\* C24: output(p1, v) leaves the mode, value and pull of every other pin as they
\* were.
C24_PinIsolation ==
    [][OutputStep =>
          \A p2 \in Pins \ {last'.arg} :
             p2 \in DOMAIN pin_states
                => (p2 \in DOMAIN pin_states' /\ pin_states'[p2] = pin_states[p2])]_vars

\* pin 17 was written 1 while pin 22 holds 0
C24_Witness ==
    /\ last.op = "output"
    /\ last.raised = "none"
    /\ last.arg = 17
    /\ 22 \in DOMAIN pin_states
    /\ pin_states[17].value = 1
    /\ pin_states[22].value = 0

\* C25: output on a configured pin that is not in output mode raises and leaves
\* the pin states as they were.
C25_WriteNeedsOutputMode ==
    [][(OutputStep /\ last'.arg \in DOMAIN pin_states
           /\ pin_states[last'.arg].mode # "output")
          => (last'.raised = "MockException" /\ pin_states' = pin_states)]_vars

\* output was refused on an input pin that holds 1
C25_Witness ==
    /\ last.op = "output"
    /\ last.raised = "MockException"
    /\ last.arg \in DOMAIN pin_states
    /\ pin_states[last.arg].mode = "input"
    /\ pin_states[last.arg].value = 1

\* C26: initialize() on an initialized mock raises nothing, leaves the pin states
\* and the callbacks as they were and leaves one interrupt thread; there is never
\* more than one live interrupt thread.
C26_InitializeIdempotent ==
    /\ [][(workers' = workers + 1 /\ mock_state = "active")
             => /\ last'.raised = "none"
                /\ pin_states' = pin_states
                /\ edge_callbacks' = edge_callbacks
                /\ workers' = 1]_vars
    /\ [](workers <= 1)

\* C27: a pin on which stuck_pin took effect reads the injected value ever after.
C27_StuckPinStays ==
    \A pin \in DOMAIN stuck :
        pin \in DOMAIN pin_states => InputPin(pin_states, pin) = stuck[pin]

\* the transaction write_read has just recorded
LastTransaction == transaction_history[Len(transaction_history)]

\* Data, Ack once per written byte
DataPhase(write_data) ==
    [i \in 1 .. 2 * Len(write_data) |-> IF i % 2 = 1 THEN "data" ELSE "ack"]

\* the bus states of an acknowledged transaction, after Idle: Start, Address, Ack,
\* the data phase, then Stop and Idle, or Start again, the address and the bytes
\* read before them
BusSequence(write_data, read_length) ==
    <<"start", "address", "ack">> \o DataPhase(write_data)
        \o (IF read_length > 0
            THEN <<"start", "address", "ack">>
                     \o [i \in 1 .. 2 * read_length |-> IF i % 2 = 1 THEN "data" ELSE "ack"]
            ELSE <<>>)
        \o <<"stop", "idle">>

\* C28: the bus states a write_read that returned went through are Start, Address,
\* Ack, then Data, Ack per written byte, then Stop (after the repeated start and
\* the read, if any), then Idle; and a write_read whose address was not
\* acknowledged went through Start, Address, Nack. (Under SpecI2C.)
C28_BusStateSequence ==
    last.op = "write_read" =>
        IF last.raised = "none"
        THEN bus_trace = BusSequence(LastTransaction.write_data,
                                     Len(LastTransaction.read_data))
        ELSE /\ Len(bus_trace) >= 3
             /\ SubSeq(bus_trace, 1, 3) = <<"start", "address", "nack">>

\* C29: while a thread holds the lock of the bus, inside write_read, a step that
\* is not its own neither changes bus_state nor takes another thread further in
\* a START/ADDRESS/STOP sequence of its own. (Under SpecI2CBus.)
C29_NoInterleaving ==
    [][\A t \in Threads :
           (i2c_lock = t /\ i2c_call'[t] = i2c_call[t])
               => /\ bus_state' = bus_state
                  /\ \A u \in Threads \ {t} :
                         i2c_call[u].state # "idle" => i2c_call'[u] = i2c_call[u]]_vars

\* C30: a write_read that wrote the register index r to a device with a register
\* pointer and returned, returned the registers r, r+1, ... of the device.
\* (Under SpecI2CBus.)
C30_RegisterRead ==
    (/\ last.op = "write_read"
     /\ last.raised = "none"
     /\ last.arg \in DOMAIN device_pointer
     /\ LastTransaction.write_data # <<>>)
        => last.ret = TestDeviceRead(LastTransaction.write_data[1], Len(last.ret))

\* a step in which a write_read ended: only write_read counts an operation
WriteReadEnded == i2c_metrics'.operations = i2c_metrics.operations + 1

\* C31: a write_read appends exactly one record to the transaction history, its
\* success being TRUE exactly if the call returned, and leaves the records
\* before it as they were; any other step leaves the history as it is, unless it
\* is clear_transaction_history or shutdown, which empty it. (Under SpecI2CScan.)
C31_OneRecordPerCall ==
    [][/\ WriteReadEnded =>
              /\ Len(transaction_history') = Len(transaction_history) + 1
              /\ SubSeq(transaction_history', 1, Len(transaction_history))
                     = transaction_history
              /\ transaction_history'[Len(transaction_history')].success
                     = (last'.raised = "none")
       /\ ~WriteReadEnded =>
              \/ transaction_history' = transaction_history
              \/ /\ last'.op \in {"clear_transaction_history", "shutdown"}
                 /\ transaction_history' = <<>>]_vars

\* a failed write_read, then one that returned
C31_Witness ==
    /\ last.op = "write_read"
    /\ Len(transaction_history) = 2
    /\ ~transaction_history[1].success
    /\ transaction_history[2].success

\* C32: what scan returned is the addresses of 0x08 .. 0x77 that hold a device,
\* each once, in ascending order. (Under SpecI2CScan.)
C32_ScanExact ==
    last.op = "scan" =>
        /\ \A i, j \in DOMAIN last.ret : i < j => last.ret[i] < last.ret[j]
        /\ {last.ret[i] : i \in DOMAIN last.ret} = {a \in devices : a >= 8 /\ a <= 119}

\* scan has returned with devices in the range and on either side of it
C32_Witness == last.op = "scan" /\ devices = ScanDevices /\ last.ret = <<8, 119>>

\* a step in which transfer returned what it received
TransferReturned ==
    /\ spi_call.state = "transfer"
    /\ spi_call'.state = "idle"
    /\ last'.raised = "none"

\* C33: transfer returns one byte per byte of tx_data, in order: the answer of
\* the device on the chip select to that byte, the device being asked once per
\* byte, or 0xFF if the chip select has no device. (Under SpecSPITransfer.)
C33_OneByteBack ==
    [][TransferReturned =>
           LET cs == spi_call.chip_select
               tx == spi_call.tx_data
               rx == last'.ret
           IN  /\ Len(rx) = Len(tx)
               /\ \A i \in DOMAIN tx :
                      rx[i] = IF cs \in DOMAIN spi_devices
                              THEN DeviceResponse(Called(spi_devices[cs], i - 1), tx[i])
                              ELSE 255]_vars

\* C36: a transfer that returned has called transfer_byte of the device on its
\* chip select once for each byte of tx_data. (Under SpecSPITransfer.)
C36_OneQueryPerByte ==
    [][(TransferReturned /\ spi_call.chip_select \in DOMAIN spi_devices) =>
           spi_devices'[spi_call.chip_select].calls
               = spi_devices[spi_call.chip_select].calls + Len(spi_call.tx_data)]_vars

\* C38: whenever transfer is over, by returning or by raising, no chip select is
\* asserted and no device is selected. (Under SpecSPI.)
C38_DeselectedAfterTransfer ==
    (spi_call.state = "idle" /\ last.op = "transfer") =>
        /\ current_cs = NoCS
        /\ \A cs \in DOMAIN spi_devices : ~spi_devices[cs].selected

\* C34: once retry_count has reached max_retries, run() polls the monitor no
\* more: the one step left to it is to go past the loop and call stop().
\* (Under SpecDetector.)
C34_StopsAfterMaxRetries ==
    [][(service.retry_count >= max_retries /\ service.at \notin {"stopped", "exited"})
           => service'.at = "stopped"]_vars

\* an edge record waits in the delivery queue
EdgeQueued == \E i \in DOMAIN interrupt_queue : interrupt_queue[i] # Sentinel

\* C35: while the mock is active, an edge record in the delivery queue is taken
\* by a worker thread in the end (or the mock stops being active), the worker
\* threads being scheduled fairly. (Under SpecDelivery.)
C35_EveryEdgeDelivered ==
    (mock_state = "active" /\ EdgeQueued) ~> (~EdgeQueued \/ mock_state # "active")

\* the bytes of the frames of a receive queue, in queue order
QueueData(frames) == [i \in 1..Len(frames) |-> frames[i].data]

\* C37: injecting parity_error or framing_error into a UART whose receive
\* queue is not empty sets the flag on the frame at the head of the queue, the
\* one the next read() takes, and leaves the order of the queue unchanged
C37_FlagOnNextFrame ==
    [][\A error_type \in FrameErrors :
          (/\ inject_frame_error(1, error_type)
           /\ uart_injection[1]
           /\ rx_buffer[1] # <<>>)
          => /\ QueueData(rx_buffer'[1]) = QueueData(rx_buffer[1])
             /\ rx_buffer'[1][1][error_type]]_vars

\* the precondition check of a call fails: some precondition of the operation
\* is false of the implementation's state merged with the arguments
PreconditionFails(operation, kwargs) ==
    Failing(Preconditions(operation), Merge(get_state(impl_state), kwargs)) # {}

\* C39: when the precondition check of execute_with_verification fails, the
\* operation is not executed: the implementation's state is what it was before
\* the call, and the call appends exactly one violation, a precondition one
C39_FailedPreconditionNoEffect ==
    [][\A operation \in Operations : \A kwargs \in Args(operation) : \A late \in BOOLEAN :
          (execute_with_verification(operation, kwargs, late)
           /\ PreconditionFails(operation, kwargs))
          => /\ impl_state' = impl_state
             /\ Len(violations') = Len(violations) + 1
             /\ SubSeq(violations', 1, Len(violations)) = violations
             /\ violations'[Len(violations')].violation_type = "precondition"
             /\ violations'[Len(violations')].operation = operation]_vars

\* a call whose precondition check failed has returned, for a write that would
\* have changed the pin had it been executed
C39_Witness ==
    /\ last.op = "execute_with_verification"
    /\ last.arg[1] = "write"
    /\ last.ret = Verified(None, FALSE)
    /\ Len(checks) = 1 /\ ~checks[1].returned
    /\ violations # <<>>
    /\ violations[Len(violations)].violation_type = "precondition"
    /\ execute_operation(impl_state, "write", last.arg[2]).state # impl_state

\* C40: the peer link of the UARTs is symmetric in every reachable state: a's
\* peer is b exactly when b's peer is a, after any sequence of connect_peer and
\* disconnect_peer among any number of UARTs
C40_PeerSymmetric ==
    \A a \in UARTs : \A b \in UARTs : (peer[a] = b) <=> (peer[b] = a)

====
